---- MODULE Spec2Model ----
(***************************************************************************)
(* Object versioning and effects computation of the validator core, as     *)
(* exercised by crates/sui-core/src/unit_tests/move_integration_tests.rs.  *)
(* One action is one transaction: input checks, argument validation, the   *)
(* execution of the called Move function, version assignment, effects      *)
(* classification and commit.                                              *)
(***************************************************************************)
EXTENDS Integers, Sequences, FiniteSets, TLC

\* ------------------------------------------------------------------ bounds
MaxObjects == 3
MaxVersion == 4
\* Links an owner chain may have before its resolution gives up.
MaxDepth == 2
\* Connections the metrics proxy serves at a time.
MaxConns == 2

\* ------------------------------------------------------------- identities
\* init_state_with_ids(vec![(sender, gas)]): the gas coins of the sender.
GasIds == {0, 1}
Addrs == {"A", "B"}
Sender == "A"
NoId == 0 - 1
\* Ids for the objects the transactions create; the last two are used only by
\* the transfer of a child to a second parent.
FreshIds == Cardinality(GasIds) .. (Cardinality(GasIds) + MaxObjects + 1)
ObjectIDs == GasIds \cup FreshIds

\* ------------------------------------------------------------------ owner
NoOwner == [kind |-> "none", addr |-> "none", id |-> NoId, isv |-> 0]
AddressOwner(a) == [kind |-> "AddressOwner", addr |-> a, id |-> NoId, isv |-> 0]
ObjectOwner(p) == [kind |-> "ObjectOwner", addr |-> "none", id |-> p, isv |-> 0]
Shared(v) == [kind |-> "Shared", addr |-> "none", id |-> NoId, isv |-> v]
Immutable == [kind |-> "Immutable", addr |-> "none", id |-> NoId, isv |-> 0]

\* ----------------------------------------------------------------- digest
OBJECT_DIGEST_WRAPPED == "OBJECT_DIGEST_WRAPPED"
OBJECT_DIGEST_DELETED == "OBJECT_DIGEST_DELETED"
LiveDigest == "live"

\* An id the store has never seen at top level.
NoObject == [st |-> "none", ver |-> 0, owner |-> NoOwner, ty |-> "none"]

VARIABLES
    store,      \* ObjectID -> latest top-level entry (live object or tombstone)
    holder,     \* ObjectID -> id of the object it is embedded in, or NoId
    nextId,     \* next fresh ObjectID of the transaction context
    lastTx,     \* the last transaction submitted, with its pre-image
    result,     \* what the authority returned for it
    packages,   \* ObjectID -> names in the module map of the package stored there
    build,      \* the package build behind the last transaction, if any
    walk,       \* the resolution of one object-owner chain
    srv,        \* the metrics proxy: its server, its shutdown task, the signals
    peer        \* one call of create_server_cert_enforce_peer

\* The variables of the authority, and the others.
core == <<store, holder, nextId, lastTx, result, packages, build>>
aside == <<walk, srv, peer>>
vars == <<store, holder, nextId, lastTx, result, packages, build, walk, srv, peer>>


\* No package was built for the transaction.
NoBuild ==
    [package |-> "none", with_unpublished_deps |-> FALSE, checked |-> FALSE,
     error |-> "none", message |-> {}]

\* ------------------------------------------------------------ small helpers
Max(S) == CHOOSE x \in S : \A y \in S : y <= x
Range(q) == {q[i] : i \in 1..Len(q)}

\* ------------------------------------------------- programmable transaction
\* Command::MakeMoveVec(tag, elements), the move call and the publish command.
Input(id) == [k |-> "Input", v |-> id]
Result(j) == [k |-> "Result", v |-> j]
MakeMoveVec(tag, ids) ==
    [kind |-> "MakeMoveVec", tag |-> tag, fn |-> "none",
     args |-> [i \in 1..Len(ids) |-> Input(ids[i])], modules |-> <<>>]
MoveCall(fn, args) ==
    [kind |-> "MoveCall", tag |-> "none", fn |-> fn, args |-> args, modules |-> <<>>]
PublishCommand(modules) ==
    [kind |-> "Publish", tag |-> "none", fn |-> "publish", args |-> <<>>, modules |-> modules]

\* TestCallArg::Object(id) and TestCallArg::ObjVec(ids)
Object(id) == [k |-> "Object", ids |-> <<id>>]
ObjVec(ids) == [k |-> "ObjVec", ids |-> ids]
\* TestCallArg::Pure(bytes)
Pure(bytes) == [k |-> "Pure", ids |-> bytes]

\* Number of ObjVec arguments among the first n arguments.
RECURSIVE VecsBefore(_, _)
VecsBefore(targs, n) ==
    IF n = 0 THEN 0
    ELSE VecsBefore(targs, n - 1) + (IF targs[n].k = "ObjVec" THEN 1 ELSE 0)

RECURSIVE VecCommands(_, _, _)
VecCommands(targs, n, tag) ==
    IF n > Len(targs) THEN <<>>
    ELSE IF targs[n].k = "ObjVec"
         THEN <<MakeMoveVec(tag, targs[n].ids)>> \o VecCommands(targs, n + 1, tag)
         ELSE VecCommands(targs, n + 1, tag)

\* call_move: every ObjVec argument becomes a MakeMoveVec command placed before
\* the move call, which receives its result; every Object argument is an input
\* and every Pure argument is passed as its bytes.
call_move(fn, targs, tag) ==
    VecCommands(targs, 1, tag) \o
    <<MoveCall(fn, [i \in 1..Len(targs) |->
                      IF targs[i].k = "ObjVec"
                      THEN Result(VecsBefore(targs, i) - 1)
                      ELSE IF targs[i].k = "Pure"
                      THEN [k |-> "Pure", v |-> targs[i].ids]
                      ELSE Input(targs[i].ids[1])])>>

\* ------------------------------------------------------ function signatures
P(mode, ty) == [mode |-> mode, ty |-> ty]

\* The function that a function of entry_point_vector with a type parameter
\* is once the parameter is dropped, and the type an object type becomes with
\* the parameter set to Any.
NonGeneric(fn) ==
    CASE fn = "entry_point_vector::mint_any" -> "entry_point_vector::mint"
      [] fn = "entry_point_vector::mint_another_any" -> "entry_point_vector::mint_another"
      [] fn = "entry_point_vector::mint_shared_any" -> "entry_point_vector::mint_shared"
      [] fn = "entry_point_vector::mint_child_any" -> "entry_point_vector::mint_child"
      [] fn = "entry_point_vector::child_access_any" -> "entry_point_vector::child_access"
      [] fn = "entry_point_vector::obj_vec_destroy_any" -> "entry_point_vector::obj_vec_destroy"
      [] fn = "entry_point_vector::two_obj_vec_destroy_any" ->
            "entry_point_vector::two_obj_vec_destroy"
      [] fn = "entry_point_vector::same_objects_any" -> "entry_point_vector::same_objects"
      [] fn = "entry_point_vector::same_objects_ref_any" ->
            "entry_point_vector::same_objects_ref"
      [] OTHER -> fn
AnyType(ty) ==
    CASE ty = "entry_point_vector::Obj" -> "entry_point_vector::ObjAny<Any>"
      [] ty = "entry_point_vector::AnotherObj" -> "entry_point_vector::AnotherObjAny<Any>"
      [] OTHER -> ty

\* transfer::freeze_object<T>, which takes an object of type T by value and
\* makes it Immutable, for the types T of the objects that are frozen.
FreezeFns ==
    ("transfer::freeze_object<object_wrapping::Child>" :> "object_wrapping::Child")
        @@ ("transfer::freeze_object<entry_point_vector::Obj>" :> "entry_point_vector::Obj")

Sig(fn) ==
    CASE fn = "object_wrapping::create_child" -> <<>>
      [] fn \in DOMAIN FreezeFns -> <<P("val", FreezeFns[fn])>>
      [] fn = "object_wrapping::create_parent" -> <<P("val", "object_wrapping::Child")>>
      [] fn = "object_wrapping::extract_child" -> <<P("mut", "object_wrapping::Parent")>>
      [] fn = "object_wrapping::set_child" ->
            <<P("mut", "object_wrapping::Parent"), P("val", "object_wrapping::Child")>>
      [] fn = "object_wrapping::delete_parent" -> <<P("val", "object_wrapping::Parent")>>
      [] fn = "object_owner::create_parent" -> <<>>
      [] fn = "object_owner::create_child" -> <<>>
      [] fn = "object_owner::mutate_child" -> <<P("mut", "object_owner::Child")>>
      [] fn = "object_owner::add_child" ->
            <<P("mut", "object_owner::Parent"), P("val", "object_owner::Child")>>
      [] fn = "object_owner::mutate_child_with_parent" ->
            <<P("mut", "object_owner::Child"), P("mut", "object_owner::Parent")>>
      [] fn = "object_owner::create_parent_and_child" -> <<>>
      [] fn = "object_owner::delete_parent_and_child" -> <<P("val", "object_owner::Parent")>>
      [] fn = "object_owner::create_parent_and_child_wrapped" -> <<>>
      [] fn = "object_owner::delete_parent_and_child_wrapped" ->
            <<P("val", "object_owner::Parent")>>
      [] fn = "object_owner::add_child_wrapped" ->
            <<P("mut", "object_owner::Parent"), P("val", "object_owner::Child")>>
      [] fn = "entry_point_vector::prim_vec_len" -> <<P("pure", <<"vector", "u64">>)>>
      [] fn = "entry_point_vector::mint" -> <<P("pure", <<"u64">>)>>
      [] fn = "entry_point_vector::mint_another" -> <<P("pure", <<"u64">>)>>
      [] fn = "entry_point_vector::mint_shared" -> <<P("pure", <<"u64">>)>>
      [] fn = "entry_point_vector::mint_child" ->
            <<P("pure", <<"u64">>), P("mut", "entry_point_vector::Obj")>>
      [] fn = "entry_point_vector::child_access" ->
            <<P("val", "entry_point_vector::Obj"), P("vec", "entry_point_vector::Obj")>>
      [] fn = "object_owner::transfer_child" ->
            <<P("mut", "object_owner::Parent"), P("mut", "object_owner::Parent")>>
      [] fn = "entry_point_vector::obj_vec_destroy" -> <<P("vec", "entry_point_vector::Obj")>>
      [] fn = "entry_point_vector::two_obj_vec_destroy" ->
            <<P("vec", "entry_point_vector::Obj")>>
      [] fn = "entry_point_vector::same_objects" ->
            <<P("val", "entry_point_vector::Obj"), P("vec", "entry_point_vector::Obj")>>
      [] fn = "entry_point_vector::same_objects_ref" ->
            <<P("ref", "entry_point_vector::Obj"), P("vec", "entry_point_vector::Obj")>>
      [] fn \in {"entry_point_vector::mint_any", "entry_point_vector::mint_another_any",
                  "entry_point_vector::mint_shared_any"} -> <<P("pure", <<"u64">>)>>
      [] fn = "entry_point_vector::mint_child_any" ->
            <<P("pure", <<"u64">>), P("mut", AnyType("entry_point_vector::Obj"))>>
      [] fn \in {"entry_point_vector::child_access_any",
                  "entry_point_vector::same_objects_any"} ->
            <<P("val", AnyType("entry_point_vector::Obj")),
              P("vec", AnyType("entry_point_vector::Obj"))>>
      [] fn = "entry_point_vector::same_objects_ref_any" ->
            <<P("ref", AnyType("entry_point_vector::Obj")),
              P("vec", AnyType("entry_point_vector::Obj"))>>
      [] fn \in {"entry_point_vector::obj_vec_destroy_any",
                  "entry_point_vector::two_obj_vec_destroy_any"} ->
            <<P("vec", AnyType("entry_point_vector::Obj"))>>
      [] fn = "entry_point_vector::obj_vec_empty" -> <<P("vec", "entry_point_vector::Obj")>>
      [] fn = "entry_point_vector::type_param_vec_empty" ->
            <<P("vec", "entry_point_vector::Obj")>>
      [] fn = "entry_point_string::ascii_arg" -> <<P("pure", <<"ascii">>), P("pure", <<"u64">>)>>
      [] fn = "entry_point_string::utf8_arg" -> <<P("pure", <<"utf8">>), P("pure", <<"u64">>)>>
      [] fn = "entry_point_string::utf8_vec_arg" ->
            <<P("pure", <<"vector", "utf8">>), P("pure", <<"u64">>)>>
      [] fn = "entry_point_string::option_ascii_arg" -> <<P("pure", <<"option", "ascii">>)>>
      [] fn = "entry_point_string::option_utf8_arg" -> <<P("pure", <<"option", "utf8">>)>>
      [] fn = "entry_point_string::vec_option_utf8_arg" ->
            <<P("pure", <<"vector", "option", "utf8">>)>>
      [] fn = "entry_point_string::option_vec_option_utf8_arg" ->
            <<P("pure", <<"option", "vector", "option", "utf8">>)>>
      [] OTHER -> <<>>

\* Fresh object ids the function draws from the transaction context.
NumFresh(fn) ==
    CASE NonGeneric(fn) \in
                {"object_wrapping::create_child", "object_wrapping::create_parent",
                 "object_owner::create_parent", "object_owner::create_child",
                 "object_owner::add_child", "object_owner::add_child_wrapped",
                 "entry_point_vector::mint", "entry_point_vector::mint_another",
                 "entry_point_vector::mint_shared", "depends_on_basics::delegate",
                 "entry_point_vector::mint_child", "object_owner::transfer_child"} -> 1
      [] fn = "publish" -> 2
      [] fn \in {"object_owner::create_parent_and_child",
                 "object_owner::create_parent_and_child_wrapped"} -> 3
      [] OTHER -> 0

\* ----------------------------------------------------------- version assigner
\* SequenceNumber::lamport_increment(versions): one more than the largest.
lamport_increment(versions) == 1 + Max(versions)

\* Variant: only the gas object's version is taken into account.
TxVersionGasOnly(st, inputs, gas) == lamport_increment({st[gas].ver})

\* Variant: one clock for the whole store.
TxVersionGlobalClock(st, inputs, gas) == lamport_increment({st[i].ver : i \in ObjectIDs})

\* The version a transaction stamps on everything it writes: the successor of
\* the versions of its input objects and of its gas object.
TxVersion(st, inputs, gas) == lamport_increment({st[i].ver : i \in inputs \cup {gas}})

\* ------------------------------------------------------------ ownership model
\* Variant: the child is let through.
AuthenticateChildAllowed(obj) == "allowed"

\* An object-owned child named directly as a transaction argument: the caller
\* bypasses the parent chain, whether or not the parent is an argument too.
AuthenticateChild(obj) == "InvalidChildObjectArgument"

\* Variant: an Immutable object may be put to any use.
authenticateAnyUse(obj, auth) ==
    CASE obj.st # "live" -> "ObjectNotFound"
      [] obj.owner.kind = "AddressOwner" ->
            (IF obj.owner.addr = auth.signer THEN "allowed" ELSE "IncorrectSigner")
      [] obj.owner.kind = "ObjectOwner" -> AuthenticateChild(obj)
      [] obj.owner.kind = "Shared" ->
            (IF auth.shared THEN "allowed" ELSE "NotSharedObjectPath")
      [] OTHER -> "allowed"

\* authenticate(object, provided authority) for an object named as a
\* transaction input. The authority is the signer of the transaction, whether
\* the transaction takes the shared-object path, and the use made of the
\* object: "read" through an immutable reference, "write" by value, through a
\* mutable reference or as a vector element. A Shared object is allowed on
\* the shared-object path only; an Immutable object is allowed to be read
\* only, whoever signs.
authenticate(obj, auth) ==
    CASE obj.st # "live" -> "ObjectNotFound"
      [] obj.owner.kind = "AddressOwner" ->
            (IF obj.owner.addr = auth.signer THEN "allowed" ELSE "IncorrectSigner")
      [] obj.owner.kind = "ObjectOwner" -> AuthenticateChild(obj)
      [] obj.owner.kind = "Shared" ->
            (IF auth.shared THEN "allowed" ELSE "NotSharedObjectPath")
      [] OTHER -> (IF auth.use = "read" THEN "allowed" ELSE "ImmutableObjectMutation")

\* Variant: the execution result is taken as it is.
ResolveOwnersAny(st, raw) == raw

\* The owners a transaction's writes resolve to: an object whose owner is
\* Shared or Immutable keeps that owner, so a result that deletes the object,
\* embeds it in another or writes it with another owner fails.
ResolveOwners(st, raw) ==
    IF /\ ~raw.abort
       /\ \E i \in ObjectIDs :
             /\ st[i].st = "live"
             /\ st[i].owner.kind \in {"Shared", "Immutable"}
             /\ \/ i \in raw.deleted
                \/ \E h \in raw.hold : h[1] = i
                \/ \E w \in raw.live : w.id = i /\ w.owner # st[i].owner
    THEN [abort |-> TRUE, error |-> "InvalidOwnerTransition", live |-> {},
          deleted |-> {}, hold |-> {}]
    ELSE raw

\* ------------------------------------------------------------ metrics proxy
\* let grace = 30;
GraceSeconds == 30
Signals == {"ctrl_c", "terminate"}
\* The server, its shutdown task and the process's signal handlers: the
\* disposition of each signal is the default action, a handler that nobody
\* listens to yet, or a handler with the task's listener behind it.
NoServer ==
    [unix |-> TRUE, acceptor |-> FALSE, serving |-> "no", task |-> "none",
     poll |-> <<>>, handler |-> [sig \in Signals |-> "default"],
     arrived |-> {}, lost |-> {}, shutdowns |-> 0, grace |-> 0, conns |-> 0,
     elapsed |-> 0]

\* The ctrl_c future of shutdown_signal: ready once a Ctrl-C has arrived.
ctrl_c(s) == "ctrl_c" \in s.arrived

\* The terminate future: ready once a SIGTERM has arrived on unix, pending for
\* ever elsewhere.
terminate(s) == s.unix /\ "terminate" \in s.arrived

\* The arguments of create_server_cert_enforce_peer and the files behind the
\* two paths.
Paths == {"None", "Some"}
CertFiles == {"absent", "garbage", "pem"}
KeyFiles == {"absent", "nokey", "pem"}
Urls == {"url1", "url2"}
NoProvider == [url |-> "none", polling |-> FALSE]
NoCall ==
    [pc |-> "idle", certificate_file |-> "None", private_key |-> "None", url |-> "none",
     certfile |-> "absent", keyfile |-> "absent", allower |-> NoProvider, reads |-> <<>>,
     ret |-> [kind |-> "none", msg |-> "none", provider |-> NoProvider]]

\* Variant: only the certificate file is required.
missing_certs_certificate_only(p) == p.certificate_file = "None"

\* The let-else of create_server_cert_enforce_peer: one of the two paths is
\* absent.
missing_certs(p) == p.certificate_file = "None" \/ p.private_key = "None"

\* --------------------------------------------------- owner chain resolution
\* The walk up the parent links of an object-owned object, by id through a
\* table of objects, one link at a time and at most MaxDepth links.
ChainIds == 0..MaxDepth
ChainOwners ==
    {AddressOwner(a) : a \in Addrs} \cup {ObjectOwner(p) : p \in 0..(MaxDepth + 1)}
        \cup {Immutable}
ChainObjects ==
    {NoObject} \cup {[st |-> "live", ver |-> 1, owner |-> o, ty |-> "Field"] : o \in ChainOwners}
NoWalk == [table |-> <<>>, at |-> NoId, signer |-> "none", depth |-> 0, verdict |-> "idle"]

\* Variant: the walk does not count the links it follows.
ResolveStepNoCount(w) ==
    LET obj == IF w.at \in DOMAIN w.table THEN w.table[w.at] ELSE NoObject IN
    IF obj.st = "live" /\ obj.owner.kind = "ObjectOwner"
    THEN IF w.depth >= MaxDepth THEN [w EXCEPT !.verdict = "denied"]
         ELSE [w EXCEPT !.at = obj.owner.id]
    ELSE [w EXCEPT !.verdict =
              IF authenticate(obj, [signer |-> w.signer, shared |-> FALSE,
                                    use |-> "read"]) = "allowed"
              THEN "allowed" ELSE "denied"]

\* One step of the walk: the verdict at a root or at a missing object, the
\* next link otherwise, denied when the bound is reached.
ResolveStep(w) ==
    LET obj == IF w.at \in DOMAIN w.table THEN w.table[w.at] ELSE NoObject IN
    IF obj.st = "live" /\ obj.owner.kind = "ObjectOwner"
    THEN IF w.depth >= MaxDepth THEN [w EXCEPT !.verdict = "denied"]
         ELSE [w EXCEPT !.at = obj.owner.id, !.depth = w.depth + 1]
    ELSE [w EXCEPT !.verdict =
              IF authenticate(obj, [signer |-> w.signer, shared |-> FALSE,
                                    use |-> "read"]) = "allowed"
              THEN "allowed" ELSE "denied"]

\* ------------------------------------------------------------- input checks
\* Object ids named by the commands, in order of appearance, each with the
\* use the command makes of the object: "read" for a parameter that is an
\* immutable reference, "write" for any other and for a vector element.
RECURSIVE InputSeq(_, _)
InputSeq(cmds, c) ==
    IF c > Len(cmds) THEN <<>>
    ELSE SelectSeq([i \in 1..Len(cmds[c].args) |->
                       [k |-> cmds[c].args[i].k, v |-> cmds[c].args[i].v,
                        use |-> IF /\ cmds[c].kind = "MoveCall"
                                   /\ i <= Len(Sig(cmds[c].fn))
                                   /\ Sig(cmds[c].fn)[i].mode = "ref"
                                THEN "read" ELSE "write"]],
                   LAMBDA a : a.k = "Input") \o InputSeq(cmds, c + 1)

InputObjects(cmds) == {a.v : a \in Range(InputSeq(cmds, 1))}

\* The flag of call_move_ that sends the transaction on the shared-object
\* path: "shared object in arguments".
SharedArguments(st, cmds) == \E i \in InputObjects(cmds) : st[i].owner.kind = "Shared"

\* ------------------------------------------------------------ package build
\* The test packages under unit_tests/data: their own modules and their
\* dependencies, each with or without a published address in its manifest.
Dep(name, published, modules) == [name |-> name, published |-> published, modules |-> modules]
TestPackage(name, modules, deps) == [name |-> name, modules |-> modules, deps |-> deps]
TestPackages ==
    {TestPackage("depends_on_basics", <<"depends_on_basics">>,
                 {Dep("Sui", TRUE, <<"object">>), Dep("Examples", FALSE, <<"object_basics">>)}),
     TestPackage("custom_properties_in_manifest_ensure_published_at", <<"main">>,
                 {Dep("CustomPropertiesInManifestDependencyMissingPublishedAt", FALSE,
                      <<"dependency">>)}),
     TestPackage("object_owner", <<"object_owner">>, {Dep("Sui", TRUE, <<"object">>)})}

\* gather_dependencies(graph): the dependencies with and without an address.
gather_dependencies(pkg) ==
    [published |-> {d \in pkg.deps : d.published},
     unpublished |-> {d \in pkg.deps : ~d.published}]

\* check_unpublished_dependencies(unpublished): an error naming every
\* dependency that has no published address.
check_unpublished_dependencies(unpublished) ==
    IF unpublished = {} THEN [ok |-> TRUE, error |-> "none", names |-> {}]
    ELSE [ok |-> FALSE, error |-> "ModulePublishFailure",
          names |-> {d.name : d \in unpublished}]

RECURSIVE DepModules(_)
DepModules(ds) ==
    IF ds = {} THEN <<>>
    ELSE LET d == CHOOSE x \in ds : TRUE IN d.modules \o DepModules(ds \ {d})

\* Variant: the dependencies are never bundled.
PackageBytesOwnOnly(pkg, with_unpublished_deps) == pkg.modules

\* get_package_bytes(with_unpublished_deps): the package's modules, and with
\* the flag the modules of its unpublished dependencies as well.
get_package_bytes(pkg, with_unpublished_deps) ==
    pkg.modules \o
    (IF with_unpublished_deps THEN DepModules(gather_dependencies(pkg).unpublished)
     ELSE <<>>)

\* The Publication Gate on the modules of a publish command: every dependency
\* of a package being published has a published address or has its modules
\* in the same publish; the others are refused as
\* check_unpublished_dependencies refuses them, by name.
PublicationGate(modules) ==
    check_unpublished_dependencies(
        {d \in UNION {gather_dependencies(pkg).unpublished :
                        pkg \in {p \in TestPackages :
                                     Range(p.modules) \cap Range(modules) # {}}} :
            ~(Range(d.modules) \subseteq Range(modules))})

\* Variant: only a publish command is looked at.
EmptyCommandPublishOnly(cmd) == cmd.kind = "Publish" /\ Len(cmd.modules) = 0

\* Variant: a module list holding nothing but empty blobs counts as empty.
EmptyCommandOrEmptyBlobs(cmd) ==
    \/ cmd.kind = "MakeMoveVec" /\ cmd.tag = "none" /\ Len(cmd.args) = 0
    \/ cmd.kind = "Publish" /\ \A i \in 1..Len(cmd.modules) : cmd.modules[i] = "empty"

\* A command that carries nothing to work on.
EmptyCommand(cmd) ==
    \/ cmd.kind = "MakeMoveVec" /\ cmd.tag = "none" /\ Len(cmd.args) = 0
    \/ cmd.kind = "Publish" /\ Len(cmd.modules) = 0

RECURSIVE FirstDenied(_, _, _, _)
FirstDenied(st, ins, signer, shared) ==
    IF ins = <<>> THEN "ok"
    ELSE LET r == authenticate(st[Head(ins).v],
                               [signer |-> signer, shared |-> shared, use |-> Head(ins).use])
         IN IF r # "allowed" THEN r ELSE FirstDenied(st, Tail(ins), signer, shared)

\* The checks made before a transaction is executed; "ok" or the input error.
CheckInputs(st, signer, gas, cmds, shared) ==
    IF \E c \in 1..Len(cmds) : EmptyCommand(cmds[c]) THEN "EmptyCommandInput"
    ELSE IF authenticate(st[gas], [signer |-> signer, shared |-> FALSE, use |-> "write"])
                # "allowed"
    THEN authenticate(st[gas], [signer |-> signer, shared |-> FALSE, use |-> "write"])
    ELSE IF FirstDenied(st, InputSeq(cmds, 1), signer, shared) # "ok"
    THEN FirstDenied(st, InputSeq(cmds, 1), signer, shared)
    ELSE IF \E c \in 1..Len(cmds) :
               cmds[c].kind = "Publish" /\ ~PublicationGate(cmds[c].modules).ok
    THEN "ModulePublishFailure"
    ELSE "ok"

\* ------------------------------------------------------------ pure arguments
\* bcs::to_bytes: a length is written as ULEB128, a string or byte vector as
\* its length and its bytes, an option as 0 or as 1 and the value, a vector as
\* its length and its elements, a u64 as eight bytes, low byte first.
RECURSIVE uleb128(_)
uleb128(n) == IF n < 128 THEN <<n>> ELSE <<128 + (n % 128)>> \o uleb128(n \div 128)
RECURSIVE Concat(_)
Concat(es) == IF es = <<>> THEN <<>> ELSE Head(es) \o Concat(Tail(es))
bcs_bytes(b) == uleb128(Len(b)) \o b
bcs_none == <<0>>
bcs_some(e) == <<1>> \o e
bcs_seq(es) == uleb128(Len(es)) \o Concat(es)
bcs_u64(n) ==
    <<n % 256, (n \div 256) % 256, (n \div 65536) % 256, (n \div 16777216) % 256, 0, 0, 0, 0>>

\* Reading a value of a type back from bytes: whether it could be read, the
\* length read (for a length) and the bytes left over.
Unread == [ok |-> FALSE, n |-> 0, rest |-> <<>>]
Read(n, rest) == [ok |-> TRUE, n |-> n, rest |-> rest]
Drop(bs, n) == SubSeq(bs, n + 1, Len(bs))

\* A ULEB128 length: at most five bytes, no padding byte, below 2^31.
RECURSIVE ReadLen(_, _, _, _)
ReadLen(bs, mul, acc, k) ==
    IF bs = <<>> \/ (k = 5 /\ Head(bs) > 7) THEN Unread
    ELSE IF Head(bs) >= 128
         THEN ReadLen(Tail(bs), mul * 128, acc + (Head(bs) - 128) * mul, k + 1)
         ELSE IF Head(bs) = 0 /\ k > 1 THEN Unread
         ELSE Read(acc + Head(bs) * mul, Tail(bs))

\* std::ascii::String: every byte is an ASCII character.
AsciiValid(b) == \A i \in 1..Len(b) : b[i] < 128

\* Variant: any byte string is taken for UTF-8.
Utf8ValidAny(b) == TRUE

\* std::string::String: the bytes are well-formed UTF-8.
RECURSIVE Utf8Valid(_)
Utf8Valid(b) ==
    IF b = <<>> THEN TRUE
    ELSE LET h == b[1]
             cont(i) == Len(b) >= i /\ b[i] >= 128 /\ b[i] <= 191
             snd(lo, hi) == Len(b) >= 2 /\ b[2] >= lo /\ b[2] <= hi
         IN CASE h < 128 -> Utf8Valid(Drop(b, 1))
              [] h >= 194 /\ h <= 223 -> cont(2) /\ Utf8Valid(Drop(b, 2))
              [] h = 224 -> snd(160, 191) /\ cont(3) /\ Utf8Valid(Drop(b, 3))
              [] h = 237 -> snd(128, 159) /\ cont(3) /\ Utf8Valid(Drop(b, 3))
              [] h >= 225 /\ h <= 239 /\ h # 237 ->
                    cont(2) /\ cont(3) /\ Utf8Valid(Drop(b, 3))
              [] h = 240 -> snd(144, 191) /\ cont(3) /\ cont(4) /\ Utf8Valid(Drop(b, 4))
              [] h >= 241 /\ h <= 243 ->
                    cont(2) /\ cont(3) /\ cont(4) /\ Utf8Valid(Drop(b, 4))
              [] h = 244 -> snd(128, 143) /\ cont(3) /\ cont(4) /\ Utf8Valid(Drop(b, 4))
              [] OTHER -> FALSE

\* Reading one value of type ty (a chain of option and vector around a string
\* or a u64), and n values of it in a row.
RECURSIVE Decode(_, _)
RECURSIVE DecodeN(_, _, _)
Decode(ty, bs) ==
    LET l == ReadLen(bs, 1, 0, 1) IN
    CASE Head(ty) = "u64" -> IF Len(bs) >= 8 THEN Read(0, Drop(bs, 8)) ELSE Unread
      [] Head(ty) \in {"ascii", "utf8"} ->
            IF ~l.ok \/ l.n > Len(l.rest) THEN Unread
            ELSE IF Head(ty) = "ascii" /\ ~AsciiValid(SubSeq(l.rest, 1, l.n)) THEN Unread
            ELSE IF Head(ty) = "utf8" /\ ~Utf8Valid(SubSeq(l.rest, 1, l.n)) THEN Unread
            ELSE Read(0, Drop(l.rest, l.n))
      [] Head(ty) = "option" ->
            IF ~l.ok \/ l.n > 1 THEN Unread ELSE DecodeN(Tail(ty), l.n, l.rest)
      [] Head(ty) = "vector" ->
            IF ~l.ok THEN Unread ELSE DecodeN(Tail(ty), l.n, l.rest)
      [] OTHER -> Unread
DecodeN(ty, n, bs) ==
    IF n = 0 THEN Read(0, bs)
    ELSE LET d == Decode(ty, bs) IN IF d.ok THEN DecodeN(ty, n - 1, d.rest) ELSE Unread

\* The bytes are the encoding of one value of the type, with nothing left.
ValidBCS(ty, bs) == Decode(ty, bs).ok /\ Decode(ty, bs).rest = <<>>

\* --------------------------------------------------- argument usage validator
ArgOk(taken) == [ok |-> TRUE, command |-> NoId, arg_idx |-> NoId, kind |-> "none", taken |-> taken]
ArgErr(c, a, kind) == [ok |-> FALSE, command |-> c, arg_idx |-> a, kind |-> kind, taken |-> {}]

\* Element type of the vector a MakeMoveVec command builds.
ElemType(st, cmd) ==
    IF cmd.tag # "none" THEN cmd.tag
    ELSE IF Len(cmd.args) > 0 THEN st[cmd.args[1].v].ty ELSE "none"

\* Variant: any object may be an element of a vector.
VectorElementAllowedAny(obj) == TRUE

\* Shared objects are not supported as elements of an object vector.
VectorElementAllowed(obj) == obj.owner.kind # "Shared"

\* Variant: the type of an object is not compared with the type expected.
ArgErrorNoTypeCheck(st, cmd, a, taken, rty) ==
    IF cmd.args[a].k = "Input" /\ cmd.args[a].v \in taken
    THEN "InvalidUsageOfTakenValue"
    ELSE IF cmd.kind = "MakeMoveVec" /\ ~VectorElementAllowed(st[cmd.args[a].v])
    THEN "SharedObjectInVector"
    ELSE "ok"

\* The error of using argument a of command cmd, or "ok".
ArgError(st, cmd, a, taken, rty) ==
    LET arg == cmd.args[a] IN
    IF cmd.kind = "MakeMoveVec"
    THEN IF arg.v \in taken THEN "InvalidUsageOfTakenValue"
         ELSE IF ~VectorElementAllowed(st[arg.v]) THEN "SharedObjectInVector"
         ELSE IF st[arg.v].ty # ElemType(st, cmd) THEN "TypeMismatch"
         ELSE "ok"
    ELSE LET param == Sig(cmd.fn)[a] IN
         IF arg.k = "Pure"
         THEN IF param.mode # "pure" THEN "TypeMismatch"
              ELSE IF ~ValidBCS(param.ty, arg.v) THEN "InvalidBCSBytes"
              ELSE "ok"
         ELSE IF param.mode = "pure" THEN "TypeMismatch"
         ELSE IF arg.k = "Input"
         THEN IF arg.v \in taken THEN "InvalidUsageOfTakenValue"
              ELSE IF param.mode = "vec" \/ st[arg.v].ty # param.ty THEN "TypeMismatch"
              ELSE "ok"
         ELSE IF param.mode # "vec" \/ rty[arg.v + 1] # param.ty THEN "TypeMismatch"
              ELSE "ok"

\* Variant: only a by-value argument of a move call consumes the object.
TakesInCallOnly(cmd, a) ==
    cmd.args[a].k = "Input" /\ cmd.kind = "MoveCall" /\ Sig(cmd.fn)[a].mode = "val"

\* Whether the use consumes the object.
Takes(cmd, a) ==
    /\ cmd.args[a].k = "Input"
    /\ \/ cmd.kind = "MakeMoveVec"
       \/ cmd.kind = "MoveCall" /\ Sig(cmd.fn)[a].mode = "val"

\* One walk over the commands and their arguments, in order, with the set of
\* objects taken so far; the first offending (command, argument) is reported.
RECURSIVE WalkArgs(_, _, _, _, _, _)
WalkArgs(st, cmds, c, a, taken, rty) ==
    IF c > Len(cmds) THEN ArgOk(taken)
    ELSE IF a > Len(cmds[c].args)
         THEN WalkArgs(st, cmds, c + 1, 1, taken, Append(rty, ElemType(st, cmds[c])))
         ELSE LET e == ArgError(st, cmds[c], a, taken, rty) IN
              IF e # "ok" THEN ArgErr(c - 1, a - 1, e)
              ELSE WalkArgs(st, cmds, c, a + 1,
                            IF Takes(cmds[c], a) THEN taken \cup {cmds[c].args[a].v}
                            ELSE taken, rty)

ValidateArguments(st, cmds) == WalkArgs(st, cmds, 1, 1, {}, <<>>)

\* ------------------------------------------------------------ execution step
\* The raw result of running the called function: objects written live (new,
\* surfaced or re-owned), ids whose UID was deleted, and containment changes.
Raw(live, deleted, hold) ==
    [abort |-> FALSE, error |-> "none", live |-> live, deleted |-> deleted, hold |-> hold]
Abort(kind) == [abort |-> TRUE, error |-> kind, live |-> {}, deleted |-> {}, hold |-> {}]
W(id, owner, ty) == [id |-> id, owner |-> owner, ty |-> ty]

\* The dynamic field objects of parent p, the objects embedded in h, and the
\* objects owned by field f.
FieldOf(st, p) ==
    {f \in ObjectIDs : st[f].st = "live" /\ st[f].ty = "Field" /\ st[f].owner = ObjectOwner(p)}
HeldBy(hd, h) == {c \in ObjectIDs : hd[c] = h}
OwnedBy(st, f) == {c \in ObjectIDs : st[c].st = "live" /\ st[c].owner = ObjectOwner(f)}

\* Variant: only an empty blob is rejected.
BadModulesEmptyBlobOnly(modules) == \E i \in 1..Len(modules) : modules[i] = "empty"

\* A module list the verifier rejects: an empty blob, or the same module
\* twice.
BadModules(modules) ==
    \/ \E i \in 1..Len(modules) : modules[i] = "empty"
    \/ \E i, j \in 1..Len(modules) : i # j /\ modules[i] = modules[j]

\* Variant: a publish produces the package only.
PublishedPackageOnly(n, signer) == {W(n, Immutable, "Package")}

\* What a successful publish writes: the package and its upgrade capability.
PublishedObjects(n, signer) ==
    {W(n, Immutable, "Package"), W(n + 1, AddressOwner(signer), "UpgradeCap")}

\* The entry functions of the entry_point_string package: they check their
\* arguments and write nothing.
StringFns ==
    {"entry_point_string::ascii_arg", "entry_point_string::utf8_arg",
     "entry_point_string::utf8_vec_arg", "entry_point_string::option_ascii_arg",
     "entry_point_string::option_utf8_arg", "entry_point_string::vec_option_utf8_arg",
     "entry_point_string::option_vec_option_utf8_arg"}

Execute(st, hd, n, signer, fn, targs, modules) ==
    LET a1 == IF Len(targs) >= 1 /\ Len(targs[1].ids) >= 1 THEN targs[1].ids[1] ELSE NoId
        a2 == IF Len(targs) >= 2 /\ Len(targs[2].ids) >= 1 THEN targs[2].ids[1] ELSE NoId
        me == AddressOwner(signer)
        base == NonGeneric(fn)
        T(ty) == IF base # fn THEN AnyType(ty) ELSE ty
    IN
    CASE base = "publish" ->
            IF BadModules(modules) THEN Abort("VMVerificationOrDeserializationError")
            ELSE Raw(PublishedObjects(n, signer), {}, {})
      [] base = "object_wrapping::create_child" ->
            Raw({W(n, me, "object_wrapping::Child")}, {}, {})
      [] base = "object_wrapping::create_parent" ->
            Raw({W(n, me, "object_wrapping::Parent")}, {}, {<<a1, n>>})
      [] base = "object_wrapping::extract_child" ->
            IF HeldBy(hd, a1) = {} THEN Abort("MoveAbort")
            ELSE Raw({W(c, me, "object_wrapping::Child") : c \in HeldBy(hd, a1)}, {},
                     {<<c, NoId>> : c \in HeldBy(hd, a1)})
      [] base = "object_wrapping::set_child" ->
            IF HeldBy(hd, a1) # {} THEN Abort("MoveAbort")
            ELSE Raw({}, {}, {<<a2, a1>>})
      [] base = "object_wrapping::delete_parent" ->
            Raw({}, {a1} \cup HeldBy(hd, a1), {<<c, NoId>> : c \in HeldBy(hd, a1)})
      [] base = "object_owner::create_parent" ->
            Raw({W(n, me, "object_owner::Parent")}, {}, {})
      [] base = "object_owner::create_child" ->
            Raw({W(n, me, "object_owner::Child")}, {}, {})
      [] base = "object_owner::mutate_child" -> Raw({}, {}, {})
      [] base = "object_owner::mutate_child_with_parent" -> Raw({}, {}, {})
      [] base = "object_owner::add_child" ->
            IF FieldOf(st, a1) # {} THEN Abort("MoveAbort")
            ELSE Raw({W(n, ObjectOwner(a1), "Field"),
                      W(a2, ObjectOwner(n), "object_owner::Child")}, {}, {})
      [] base = "object_owner::add_child_wrapped" ->
            IF FieldOf(st, a1) # {} THEN Abort("MoveAbort")
            ELSE Raw({W(n, ObjectOwner(a1), "Field")}, {}, {<<a2, n>>})
      [] base = "object_owner::create_parent_and_child" ->
            Raw({W(n, me, "object_owner::Parent"), W(n + 1, ObjectOwner(n), "Field"),
                 W(n + 2, ObjectOwner(n + 1), "object_owner::Child")}, {}, {})
      [] base = "object_owner::create_parent_and_child_wrapped" ->
            Raw({W(n, me, "object_owner::Parent"), W(n + 1, ObjectOwner(n), "Field")}, {},
                {<<n + 2, n + 1>>})
      [] base = "object_owner::delete_parent_and_child" ->
            LET fs == {f \in FieldOf(st, a1) : OwnedBy(st, f) # {}} IN
            IF fs = {} THEN Abort("MoveAbort")
            ELSE Raw({}, {a1} \cup fs \cup UNION {OwnedBy(st, f) : f \in fs}, {})
      [] base = "object_owner::delete_parent_and_child_wrapped" ->
            LET fs == {f \in FieldOf(st, a1) : HeldBy(hd, f) # {}}
                cs == UNION {HeldBy(hd, f) : f \in fs} IN
            IF fs = {} THEN Abort("MoveAbort")
            ELSE Raw({}, {a1} \cup fs \cup cs, {<<c, NoId>> : c \in cs})
      [] base = "entry_point_vector::mint" ->
            Raw({W(n, me, T("entry_point_vector::Obj"))}, {}, {})
      [] base = "entry_point_vector::mint_another" ->
            Raw({W(n, me, T("entry_point_vector::AnotherObj"))}, {}, {})
      [] base = "entry_point_vector::mint_child" ->
            Raw({W(n, ObjectOwner(a2), T("entry_point_vector::Obj"))}, {}, {})
      [] base = "entry_point_vector::child_access" ->
            Raw({}, {a1} \cup Range(targs[2].ids), {})
      [] base = "object_owner::transfer_child" ->
            LET fs == {f \in FieldOf(st, a1) : OwnedBy(st, f) # {}} IN
            IF fs = {} \/ FieldOf(st, a2) # {} \/ a1 = a2 THEN Abort("MoveAbort")
            ELSE Raw({W(n, ObjectOwner(a2), "Field")}
                         \cup {W(c, ObjectOwner(n), st[c].ty) : c \in UNION {OwnedBy(st, f) : f \in fs}},
                     fs, {})
      [] base = "entry_point_vector::mint_shared" ->
            Raw({W(n, Shared(0), T("entry_point_vector::Obj"))}, {}, {})
      [] base = "depends_on_basics::delegate" ->
            Raw({W(n, Shared(0), "object_basics::Object")}, {}, {})
      [] base = "entry_point_vector::obj_vec_destroy" ->
            IF Len(targs[1].ids) # 1 THEN Abort("MoveAbort")
            ELSE Raw({}, Range(targs[1].ids), {})
      [] base = "entry_point_vector::two_obj_vec_destroy" ->
            IF Len(targs[1].ids) # 2 THEN Abort("MoveAbort")
            ELSE Raw({}, Range(targs[1].ids), {})
      [] base = "entry_point_vector::same_objects" ->
            Raw({}, {a1} \cup Range(targs[2].ids), {})
      [] base = "entry_point_vector::same_objects_ref" ->
            Raw({}, Range(targs[2].ids), {})
      [] base \in {"entry_point_vector::obj_vec_empty",
                  "entry_point_vector::type_param_vec_empty"} ->
            IF Len(targs[1].ids) # 0 THEN Abort("MoveAbort") ELSE Raw({}, {}, {})
      [] base = "entry_point_vector::prim_vec_len" -> Raw({}, {}, {})
      [] base \in StringFns -> Raw({}, {}, {})
      [] base \in DOMAIN FreezeFns -> Raw({W(a1, Immutable, FreezeFns[base])}, {}, {})
      [] OTHER -> Abort("FunctionNotFound")

\* ------------------------------------------------------------ effects builder
Digest(obj) ==
    CASE obj.st = "wrapped" -> OBJECT_DIGEST_WRAPPED
      [] obj.st = "deleted" -> OBJECT_DIGEST_DELETED
      [] OTHER -> LiveDigest
ObjectRef(st, i) == <<i, st[i].ver, Digest(st[i])>>
RefOwner(st, i) == [ref |-> ObjectRef(st, i), owner |-> st[i].owner]

\* Containment after the execution step.
NewHolder(hd, raw) ==
    [i \in ObjectIDs |->
        IF \E h \in {x[2] : x \in raw.hold} : <<i, h>> \in raw.hold
        THEN CHOOSE h \in {x[2] : x \in raw.hold} : <<i, h>> \in raw.hold
        ELSE hd[i]]

LiveIds(raw) == {w.id : w \in raw.live}

\* Every id the transaction read or wrote.
Touched(inputs, gas, raw) == inputs \cup {gas} \cup LiveIds(raw) \cup raw.deleted

\* Ids that are independently addressable after the transaction.
PostLive(hd, inputs, gas, raw) ==
    {i \in (inputs \cup {gas} \cup LiveIds(raw)) \ raw.deleted : NewHolder(hd, raw)[i] = NoId}

\* Variant: anything without a live pre-image counts as created.
CreatedNoLivePreImage(st, hd, inputs, gas, raw) ==
    {i \in PostLive(hd, inputs, gas, raw) : st[i].st # "live"}

\* The six classification sets, from the pre-image and the raw result.
Created(st, hd, inputs, gas, raw) ==
    {i \in PostLive(hd, inputs, gas, raw) : st[i].st = "none" /\ hd[i] = NoId}
\* Variant: the gas object is reported apart and not among the mutated.
MutatedExcludingGas(st, hd, inputs, gas, raw) ==
    {i \in PostLive(hd, inputs, gas, raw) \ {gas} : st[i].st = "live"}
\* Variant: an object whose owner the transaction changes is not mutated.
MutatedOwnerPreserved(st, hd, inputs, gas, raw) ==
    {i \in PostLive(hd, inputs, gas, raw) :
        st[i].st = "live" /\ \A w \in raw.live : w.id = i => w.owner = st[i].owner}
Mutated(st, hd, inputs, gas, raw) ==
    {i \in PostLive(hd, inputs, gas, raw) : st[i].st = "live"}
Unwrapped(st, hd, inputs, gas, raw) ==
    {i \in PostLive(hd, inputs, gas, raw) : st[i].st # "live" /\ hd[i] # NoId}
Wrapped(st, hd, inputs, gas, raw) ==
    {i \in Touched(inputs, gas, raw) \ raw.deleted :
        st[i].st = "live" /\ NewHolder(hd, raw)[i] # NoId}
\* Variant: a deleted id counts as deleted whenever the store knows the id.
DeletedAnyKnown(st, raw) == {i \in raw.deleted : st[i].st # "none"}
Deleted(st, raw) == {i \in raw.deleted : st[i].st = "live"}
\* Variant: every deleted id is reported as unwrapped and then deleted.
UnwrappedThenDeletedAll(st, raw) == raw.deleted
UnwrappedThenDeleted(st, raw) == {i \in raw.deleted : st[i].st = "wrapped"}

\* Variant: one entry for every touched id.
ModifiedAtVersionsAllTouched(st, inputs, gas, raw) ==
    {<<i, st[i].ver>> : i \in Touched(inputs, gas, raw)}

\* The pre-image versions of the objects the transaction modified.
ModifiedAtVersions(st, inputs, gas, raw) ==
    {<<i, st[i].ver>> : i \in {j \in Touched(inputs, gas, raw) : st[j].st = "live"}}

\* Variant: a shared object records the version before the creating
\* transaction.
StampOwnerPreviousVersion(owner, lv) ==
    IF owner.kind = "Shared" /\ owner.isv = 0 THEN Shared(lv - 1) ELSE owner

\* An object made shared records the version it is shared at.
StampOwner(owner, lv) ==
    IF owner.kind = "Shared" /\ owner.isv = 0 THEN Shared(lv) ELSE owner

\* Variant: a wrapped object's tombstone keeps the version it was wrapped at.
PostStoreWrapKeepsVersion(st, hd, inputs, gas, raw, lv) ==
    [i \in ObjectIDs |->
        IF i \in PostLive(hd, inputs, gas, raw)
        THEN LET ws == {w \in raw.live : w.id = i} IN
             IF ws = {} THEN [st[i] EXCEPT !.st = "live", !.ver = lv]
             ELSE LET w == CHOOSE w \in ws : TRUE IN
                  [st |-> "live", ver |-> lv, owner |-> StampOwner(w.owner, lv), ty |-> w.ty]
        ELSE IF i \in Wrapped(st, hd, inputs, gas, raw)
        THEN [st |-> "wrapped", ver |-> st[i].ver, owner |-> NoOwner, ty |-> st[i].ty]
        ELSE IF i \in Deleted(st, raw) \cup UnwrappedThenDeleted(st, raw)
        THEN [st |-> "deleted", ver |-> lv, owner |-> NoOwner, ty |-> st[i].ty]
        ELSE st[i]]

\* The object table after the transaction, every written entry at version lv.
PostStore(st, hd, inputs, gas, raw, lv) ==
    [i \in ObjectIDs |->
        IF i \in PostLive(hd, inputs, gas, raw)
        THEN LET ws == {w \in raw.live : w.id = i} IN
             IF ws = {} THEN [st[i] EXCEPT !.st = "live", !.ver = lv]
             ELSE LET w == CHOOSE w \in ws : TRUE IN
                  [st |-> "live", ver |-> lv, owner |-> StampOwner(w.owner, lv), ty |-> w.ty]
        ELSE IF i \in Wrapped(st, hd, inputs, gas, raw)
        THEN [st |-> "wrapped", ver |-> lv, owner |-> NoOwner, ty |-> st[i].ty]
        ELSE IF i \in Deleted(st, raw) \cup UnwrappedThenDeleted(st, raw)
        THEN [st |-> "deleted", ver |-> lv, owner |-> NoOwner, ty |-> st[i].ty]
        ELSE st[i]]

NoEffects ==
    [created |-> {}, mutated |-> {}, unwrapped |-> {}, deleted |-> {}, wrapped |-> {},
     unwrapped_then_deleted |-> {}, modified_at_versions |-> {}, gas_object |-> {}]

BuildEffects(st, hd, inputs, gas, raw, lv) ==
    LET post == PostStore(st, hd, inputs, gas, raw, lv) IN
    [created |-> {RefOwner(post, i) : i \in Created(st, hd, inputs, gas, raw)},
     mutated |-> {RefOwner(post, i) : i \in Mutated(st, hd, inputs, gas, raw)},
     unwrapped |-> {RefOwner(post, i) : i \in Unwrapped(st, hd, inputs, gas, raw)},
     deleted |-> {ObjectRef(post, i) : i \in Deleted(st, raw)},
     wrapped |-> {ObjectRef(post, i) : i \in Wrapped(st, hd, inputs, gas, raw)},
     unwrapped_then_deleted |-> {ObjectRef(post, i) : i \in UnwrappedThenDeleted(st, raw)},
     modified_at_versions |-> ModifiedAtVersions(st, inputs, gas, raw),
     gas_object |-> {RefOwner(post, gas)}]

\* --------------------------------------------------------------- transaction
\* Variant: a failed transaction also writes its input objects back at the
\* new version.
FailedStoreWritesInputs(st, hd, inputs, gas, lv) ==
    PostStore(st, hd, inputs, gas, Raw({}, {}, {}), lv)

\* A transaction whose execution failed is committed with the gas object as
\* its only write.
FailedStore(st, hd, inputs, gas, lv) == PostStore(st, hd, {}, gas, Raw({}, {}, {}), lv)

\* Variant: a rejected transaction still charges its gas object.
RejectedStoreChargesGas(st, hd, gas) ==
    PostStore(st, hd, {}, gas, Raw({}, {}, {}), lamport_increment({st[gas].ver}))

\* A transaction rejected with an input error is not executed: the caller gets
\* the error and the object table stays as it was.
RejectedStore(st, hd, gas) == st

Outcome(status, error, command, arg_idx, effects) ==
    [status |-> status, error |-> error, command |-> command, arg_idx |-> arg_idx,
     effects |-> effects]

\* Variant: a failure of the called function carries no command index.
CallIndexNone(cmds) == NoId

\* Index of the command that runs the function (the last one).
CallIndex(cmds) == Len(cmds) - 1

\* One run of the core on a snapshot: input checks, then argument validation
\* and execution with fresh ids from n on, then versions, effects and the
\* object table to commit.
Apply(st, hd, n, signer, gas, fn, cmds, targs, modules) ==
    LET named == InputObjects(cmds)
        inputs == {i \in named :
                      \/ st[i].owner.kind # "Immutable"
                      \/ \E a \in Range(InputSeq(cmds, 1)) : a.v = i /\ a.use = "write"}
        ierr == CheckInputs(st, signer, gas, cmds, SharedArguments(st, cmds))
        lv == TxVersion(st, named, gas)
        v == ValidateArguments(st, cmds)
        raw == IF v.ok THEN ResolveOwners(st, Execute(st, hd, n, signer, fn, targs, modules))
               ELSE Abort("CommandArgumentError")
        none == Raw({}, {}, {})
    IN
    IF ierr # "ok"
    THEN [status |-> "error", lv |-> lv, store |-> RejectedStore(st, hd, gas), holder |-> hd,
          fresh |-> 0, touched |-> {},
          outcome |-> Outcome("error", ierr, NoId, NoId, NoEffects)]
    ELSE IF raw.abort
    THEN [status |-> "failure", lv |-> lv, store |-> FailedStore(st, hd, inputs, gas, lv),
          holder |-> hd, fresh |-> 0, touched |-> {gas},
          outcome |->
              IF v.ok
              THEN Outcome("failure", raw.error, CallIndex(cmds), NoId,
                           BuildEffects(st, hd, {}, gas, none, lv))
              ELSE Outcome("failure", v.kind, v.command, v.arg_idx,
                           BuildEffects(st, hd, {}, gas, none, lv))]
    ELSE [status |-> "success", lv |-> lv, store |-> PostStore(st, hd, inputs, gas, raw, lv),
          holder |-> NewHolder(hd, raw), fresh |-> NumFresh(fn),
          touched |-> Touched(inputs, gas, raw),
          outcome |-> Outcome("success", "none", NoId, NoId,
                              BuildEffects(st, hd, inputs, gas, raw, lv))]

\* send_and_confirm_transaction: input checks, then argument validation and
\* execution, then versions, owners, effects and commit, in a run that creates
\* at most `ids` objects, on the shared-object path or not. The objects the
\* transaction names are its inputs; an Immutable one is read and not
\* written.
SubmitWithin(shared, ids, signer, gas, fn, cmds, targs, modules) ==
    LET named == InputObjects(cmds)
        inputs == {i \in named :
                      \/ store[i].owner.kind # "Immutable"
                      \/ \E a \in Range(InputSeq(cmds, 1)) : a.v = i /\ a.use = "write"}
        ierr == CheckInputs(store, signer, gas, cmds, shared)
        lv == TxVersion(store, named, gas)
        v == ValidateArguments(store, cmds)
        raw == IF v.ok
               THEN ResolveOwners(store, Execute(store, holder, nextId, signer, fn, targs,
                                                 modules))
               ELSE Abort("CommandArgumentError")
        none == Raw({}, {}, {})
        tx == [signer |-> signer, gas |-> gas, fn |-> fn, cmds |-> cmds, inputs |-> named,
               shared |-> shared, pre |-> store, preHolder |-> holder,
               executed |-> ierr = "ok" /\ v.ok]
    IN
    IF ierr # "ok"
    THEN /\ lastTx' = tx @@ [touched |-> {}]
         /\ result' = Outcome("error", ierr, NoId, NoId, NoEffects)
         /\ store' = RejectedStore(store, holder, gas)
         /\ UNCHANGED <<holder, nextId, packages>>
    ELSE /\ lv <= MaxVersion
         /\ nextId + NumFresh(fn) <= Cardinality(GasIds) + ids
         /\ IF raw.abort
            THEN /\ store' = FailedStore(store, holder, inputs, gas, lv)
                 /\ lastTx' = tx @@ [touched |-> {gas}]
                 /\ result' =
                        IF v.ok
                        THEN Outcome("failure", raw.error, CallIndex(cmds), NoId,
                                     BuildEffects(store, holder, {}, gas, none, lv))
                        ELSE Outcome("failure", v.kind, v.command, v.arg_idx,
                                     BuildEffects(store, holder, {}, gas, none, lv))
                 /\ UNCHANGED <<holder, nextId, packages>>
            ELSE /\ store' = PostStore(store, holder, inputs, gas, raw, lv)
                 /\ holder' = NewHolder(holder, raw)
                 /\ nextId' = nextId + NumFresh(fn)
                 /\ packages' = IF fn = "publish"
                                 THEN [packages EXCEPT ![nextId] = Range(modules)]
                                 ELSE packages
                 /\ lastTx' = tx @@ [touched |-> Touched(inputs, gas, raw)]
                 /\ result' = Outcome("success", "none", NoId, NoId,
                                      BuildEffects(store, holder, inputs, gas, raw, lv))

Submit(signer, gas, fn, cmds, targs, modules) ==
    SubmitWithin(SharedArguments(store, cmds), MaxObjects, signer, gas, fn, cmds, targs,
                 modules)

\* call_move(authority, gas, sender, key, package, module, function, args)
Call(signer, gas, fn, targs) ==
    /\ Submit(signer, gas, fn, call_move(fn, targs, "none"), targs, <<>>)
    /\ build' = NoBuild
    /\ UNCHANGED aside

\* Variant: the latest entry of the id is returned, tombstones included.
LatestObjectInfoAnyEntry(st, id) ==
    IF st[id].st # "none" THEN ObjectRef(st, id) ELSE "ObjectNotFound"

\* The latest-object request by id: the live object's ref, or not found.
LatestObjectInfo(st, id) ==
    IF st[id].st = "live" THEN ObjectRef(st, id) ELSE "ObjectNotFound"

\* ------------------------------------------------------------------- inputs
\* Allocated ids whose declared type is ty, whatever has become of them.
OfType(ty) == {i \in FreshIds : i < nextId /\ store[i].ty = ty}
VecElems ==
    OfType("entry_point_vector::Obj") \cup OfType("entry_point_vector::AnotherObj")
        \cup OfType("entry_point_vector::ObjAny<Any>")
        \cup OfType("entry_point_vector::AnotherObjAny<Any>")
\* The vectors the tests pass: one element, or two.
Vecs1 == {<<x>> : x \in VecElems}
Vecs2 == {<<x, y>> : x \in VecElems, y \in VecElems}
ModuleBlobs == {"empty", "m1"}
ModuleLists ==
    {<<>>} \cup {<<x>> : x \in ModuleBlobs} \cup {<<x, y>> : x \in ModuleBlobs, y \in ModuleBlobs}

\* The strings the tests pass, as bytes: "SomeString", a string of ten
\* non-ASCII characters, its two halves, six copies of it, and such a string
\* with one byte overwritten by 255.
SomeString == <<83, 111, 109, 101, 83, 116, 114, 105, 110, 103>>
Utf8Str ==
    <<195, 167, 195, 165, 226, 136, 158, 226, 137, 160, 194, 162,
      195, 181, 195, 159, 226, 136, 130, 198, 146, 226, 136, 171>>
Utf8Str1 == SubSeq(Utf8Str, 1, 12)
Utf8Str2 == SubSeq(Utf8Str, 13, 24)
Utf8Long == Utf8Str \o Utf8Str \o Utf8Str \o Utf8Str \o Utf8Str \o Utf8Str
Messed(b) == [b EXCEPT ![8] = 255]
RawStrings == {SomeString, Utf8Str, Utf8Long, Messed(SomeString), Messed(Utf8Str)}
VecStrings == {Utf8Str1, Utf8Str2, Messed(Utf8Str1)}
\* Encoded options of strings, vectors of them, options of those, and a vector
\* of two strings.
NestedArgs ==
    LET opts == {bcs_none} \cup {bcs_some(bcs_bytes(s)) : s \in {Utf8Str} \cup VecStrings}
        vecs == {bcs_seq(<<>>), bcs_seq(<<bcs_none, bcs_none>>)}
                    \cup {bcs_seq(<<o>>) : o \in opts}
    IN opts \cup vecs \cup {bcs_some(v) : v \in vecs}
           \cup {bcs_seq(<<bcs_bytes(Utf8Str1), bcs_bytes(Utf8Str2)>>)}

\* ------------------------------------------------------------------ actions
\* The tests sign with the sender's key and pay with one of the sender's coins;
\* the vector tests pay with the first coin.
FirstGas == {g \in GasIds : \A h \in GasIds : g <= h}
Call0(fn) == \E g \in GasIds : Call(Sender, g, fn, <<>>)
Call1(fn) == \E g \in GasIds, x \in OfType(Sig(fn)[1].ty) : Call(Sender, g, fn, <<Object(x)>>)
Call2(fn) ==
    \E g \in GasIds, x \in OfType(Sig(fn)[1].ty), y \in OfType(Sig(fn)[2].ty) :
        Call(Sender, g, fn, <<Object(x), Object(y)>>)
CallVec(fn, vs) == \E g \in FirstGas, v \in vs : Call(Sender, g, fn, <<ObjVec(v)>>)

Publish ==
    \E g \in GasIds, ms \in ModuleLists :
        /\ Submit(Sender, g, "publish", <<PublishCommand(ms)>>, <<>>, ms)
        /\ build' = NoBuild
        /\ UNCHANGED aside

\* build_and_try_publish_test_package: build the package, with or without the
\* modules of its unpublished dependencies, and send the publish transaction;
\* the error that refuses the transaction carries the names of the
\* dependencies the gate found unmet.
PublishPackage ==
    \E g \in GasIds, pkg \in TestPackages, flag \in BOOLEAN :
        LET bytes == get_package_bytes(pkg, flag)
            cmds == <<PublishCommand(bytes)>>
            refused == CheckInputs(store, Sender, g, cmds, FALSE) = "ModulePublishFailure"
        IN /\ build' = [package |-> pkg.name, with_unpublished_deps |-> flag,
                        checked |-> FALSE,
                        error |-> IF refused THEN "ModulePublishFailure" ELSE "none",
                        message |-> IF refused THEN PublicationGate(bytes).names ELSE {}]
           /\ UNCHANGED aside
           /\ Submit(Sender, g, "publish", <<PublishCommand(bytes)>>, <<>>, bytes)

\* The check of the dependencies of a package before it is published, on the
\* resolution graph alone: no transaction is sent.
Check_unpublished_dependencies ==
    \E pkg \in TestPackages :
        LET chk == check_unpublished_dependencies(gather_dependencies(pkg).unpublished)
        IN /\ build' = [package |-> pkg.name, with_unpublished_deps |-> FALSE,
                        checked |-> TRUE, error |-> chk.error, message |-> chk.names]
           /\ UNCHANGED <<store, holder, nextId, lastTx, result, packages>>
           /\ UNCHANGED aside

Wrapping_create_child == Call0("object_wrapping::create_child")
Wrapping_create_parent == Call1("object_wrapping::create_parent")
Wrapping_extract_child == Call1("object_wrapping::extract_child")
Wrapping_set_child == Call2("object_wrapping::set_child")
Wrapping_delete_parent == Call1("object_wrapping::delete_parent")

Owner_create_parent == Call0("object_owner::create_parent")
Owner_create_child == Call0("object_owner::create_child")
\* mutate_child, signed by the owner or by somebody else
Owner_mutate_child ==
    \E s \in Addrs, g \in GasIds, x \in OfType("object_owner::Child") :
        Call(s, g, "object_owner::mutate_child", <<Object(x)>>)
Owner_add_child == Call2("object_owner::add_child")
Owner_mutate_child_with_parent == Call2("object_owner::mutate_child_with_parent")
Owner_create_parent_and_child == Call0("object_owner::create_parent_and_child")
Owner_delete_parent_and_child == Call1("object_owner::delete_parent_and_child")
Owner_create_parent_and_child_wrapped == Call0("object_owner::create_parent_and_child_wrapped")
Owner_delete_parent_and_child_wrapped == Call1("object_owner::delete_parent_and_child_wrapped")
Owner_add_child_wrapped == Call2("object_owner::add_child_wrapped")

\* An object its owner freezes: from then on its owner is Immutable.
Freeze_object == \E fn \in DOMAIN FreezeFns : Call1(fn)

\* An Immutable object, a package or a frozen object, named by a transaction
\* that anybody signs, the sender paying with the first gas coin and the
\* other address with the second: as the argument of a function that takes it
\* by value or by mutable reference, as the element of a vector that is
\* destroyed, or as the argument of a function that reads it next to a vector
\* of address-owned objects.
Immutable_as_argument ==
    \E s \in Addrs :
    \E g \in {h \in GasIds : (s = Sender) = (h \in FirstGas)},
       x \in {i \in FreshIds : i < nextId /\ store[i].st = "live"
                                 /\ store[i].owner = Immutable} :
        \/ \E fn \in {"object_wrapping::create_parent", "object_wrapping::delete_parent",
                       "object_owner::mutate_child"} :
              Call(s, g, fn, <<Object(x)>>)
        \/ Call(s, g, "entry_point_vector::mint_child", <<Pure(bcs_u64(42)), Object(x)>>)
        \/ Call(s, g, "entry_point_vector::obj_vec_destroy", <<ObjVec(<<x>>)>>)
        \/ \E v \in {w \in Vecs1 : store[w[1]].owner.kind = "AddressOwner"} :
              Call(s, g, "entry_point_vector::same_objects_ref", <<Object(x), ObjVec(v)>>)

\* A transaction that names a Shared object as a plain input, off the
\* shared-object path.
Shared_as_owned_input ==
    /\ \E g \in FirstGas,
          x \in {i \in FreshIds : i < nextId /\ store[i].st = "live"
                                    /\ store[i].owner.kind = "Shared"} :
          SubmitWithin(FALSE, MaxObjects, Sender, g, "entry_point_vector::mint_child",
                       call_move("entry_point_vector::mint_child",
                                 <<Pure(bcs_u64(42)), Object(x)>>, "none"),
                       <<Pure(bcs_u64(42)), Object(x)>>, <<>>)
    /\ build' = NoBuild
    /\ UNCHANGED aside

\* "Create another parent" and transfer_child(parent, new_parent), once a
\* parent has a child
Owner_create_another_parent ==
    /\ \E p \in OfType("object_owner::Parent") : FieldOf(store, p) # {}
    /\ \E g \in FirstGas :
          SubmitWithin(FALSE, MaxObjects + 2, Sender, g, "object_owner::create_parent",
                       call_move("object_owner::create_parent", <<>>, "none"), <<>>, <<>>)
    /\ build' = NoBuild
    /\ UNCHANGED aside
Owner_transfer_child ==
    /\ \E g \in FirstGas, x \in OfType("object_owner::Parent"),
          y \in OfType("object_owner::Parent") :
          SubmitWithin(FALSE, MaxObjects + 2, Sender, g, "object_owner::transfer_child",
                       call_move("object_owner::transfer_child", <<Object(x), Object(y)>>, "none"),
                       <<Object(x), Object(y)>>, <<>>)
    /\ build' = NoBuild
    /\ UNCHANGED aside

\* prim_vec_len on a vector of two primitive values
Vector_prim_vec_len ==
    \E g \in FirstGas :
        Call(Sender, g, "entry_point_vector::prim_vec_len",
             <<Pure(bcs_seq(<<bcs_u64(7), bcs_u64(42)>>))>>)
Vector_mint ==
    \E g \in FirstGas : Call(Sender, g, "entry_point_vector::mint", <<Pure(bcs_u64(42))>>)
Vector_mint_another ==
    \E g \in FirstGas :
        Call(Sender, g, "entry_point_vector::mint_another", <<Pure(bcs_u64(42))>>)
Vector_mint_shared ==
    \E g \in FirstGas :
        Call(Sender, g, "entry_point_vector::mint_shared", <<Pure(bcs_u64(42))>>)
\* delegate of a published depends_on_basics package
Deps_delegate ==
    /\ \E i \in ObjectIDs : store[i].ty = "Package" /\ "depends_on_basics" \in packages[i]
    /\ \E g \in GasIds : Call(Sender, g, "depends_on_basics::delegate", <<>>)
\* mint_child(v, parent), and child_access(child, vector of the parent)
Vector_mint_child ==
    \E g \in FirstGas, x \in OfType("entry_point_vector::Obj") :
        Call(Sender, g, "entry_point_vector::mint_child", <<Pure(bcs_u64(42)), Object(x)>>)
Vector_child_access ==
    \E g \in FirstGas, x \in OfType("entry_point_vector::Obj"), v \in Vecs1 :
        Call(Sender, g, "entry_point_vector::child_access", <<Object(x), ObjVec(v)>>)
Vector_obj_vec_destroy == CallVec("entry_point_vector::obj_vec_destroy", Vecs1)
Vector_two_obj_vec_destroy == CallVec("entry_point_vector::two_obj_vec_destroy", Vecs2)
\* same_objects(o, v) and same_objects_ref(&o, v)
Vector_same_objects ==
    \E g \in FirstGas, x \in OfType("entry_point_vector::Obj"), v \in Vecs1 :
        Call(Sender, g, "entry_point_vector::same_objects", <<Object(x), ObjVec(v)>>)
Vector_same_objects_ref ==
    \E g \in FirstGas, x \in OfType("entry_point_vector::Obj"), v \in Vecs1 :
        Call(Sender, g, "entry_point_vector::same_objects_ref", <<Object(x), ObjVec(v)>>)
\* The calls of test_entry_point_vector_any, on the functions with the type
\* parameter set to Any
Vector_any ==
    \E g \in FirstGas :
        \/ Call(Sender, g, "entry_point_vector::mint_any", <<Pure(bcs_u64(42))>>)
        \/ \E v \in Vecs1 :
              Call(Sender, g, "entry_point_vector::obj_vec_destroy_any", <<ObjVec(v)>>)
        \/ \E x \in OfType("entry_point_vector::ObjAny<Any>") :
              Call(Sender, g, "entry_point_vector::mint_child_any",
                   <<Pure(bcs_u64(42)), Object(x)>>)
        \/ \E x \in OfType("entry_point_vector::ObjAny<Any>"), v \in Vecs1 :
              Call(Sender, g, "entry_point_vector::child_access_any", <<Object(x), ObjVec(v)>>)
\* The calls of test_entry_point_vector_any_error
Vector_any_error ==
    \E g \in FirstGas :
        \/ \E fn \in {"entry_point_vector::mint_another_any", "entry_point_vector::mint_any",
                       "entry_point_vector::mint_shared_any"} :
              Call(Sender, g, fn, <<Pure(bcs_u64(42))>>)
        \/ \E v \in Vecs1 :
              Call(Sender, g, "entry_point_vector::obj_vec_destroy_any", <<ObjVec(v)>>)
        \/ \E v \in Vecs2 :
              Call(Sender, g, "entry_point_vector::two_obj_vec_destroy_any", <<ObjVec(v)>>)
        \/ \E x \in OfType("entry_point_vector::ObjAny<Any>"), v \in Vecs1,
              fn \in {"entry_point_vector::same_objects_any",
                      "entry_point_vector::same_objects_ref_any"} :
              Call(Sender, g, fn, <<Object(x), ObjVec(v)>>)
\* obj_vec_empty and type_param_vec_empty<Obj> on a MakeMoveVec(tag, []) built
\* by hand, with and without the type tag
EmptyVecCall(fn) ==
    \E g \in FirstGas, tag \in {"none", "entry_point_vector::Obj"} :
        /\ Submit(Sender, g, fn, call_move(fn, <<ObjVec(<<>>)>>, tag), <<ObjVec(<<>>)>>, <<>>)
        /\ build' = NoBuild
        /\ UNCHANGED aside
Vector_obj_vec_empty == EmptyVecCall("entry_point_vector::obj_vec_empty")
Vector_type_param_vec_empty == EmptyVecCall("entry_point_vector::type_param_vec_empty")

\* ascii_arg(s, n) and utf8_arg(s, n): a string and its length in bytes, the
\* length encoded in full or cut short
String_arg ==
    \E g \in FirstGas, s \in RawStrings, cut \in {7, 8},
       fn \in {"entry_point_string::ascii_arg", "entry_point_string::utf8_arg"} :
        Call(Sender, g, fn, <<Pure(bcs_bytes(s)), Pure(SubSeq(bcs_u64(Len(s)), 1, cut))>>)
\* utf8_vec_arg(v, total_len)
String_vec_arg ==
    \E g \in FirstGas, s1 \in VecStrings, s2 \in VecStrings :
        Call(Sender, g, "entry_point_string::utf8_vec_arg",
             <<Pure(bcs_seq(<<bcs_bytes(s1), bcs_bytes(s2)>>)),
               Pure(bcs_u64(Len(s1) + Len(s2)))>>)
\* option_ascii_arg, option_utf8_arg, vec_option_utf8_arg and
\* option_vec_option_utf8_arg
String_nested_arg ==
    \E g \in FirstGas, b \in NestedArgs,
       fn \in {f \in StringFns : Len(Sig(f)) = 1} :
        Call(Sender, g, fn, <<Pure(b)>>)

\* -------------------------------------------------------------------- system
\* init_state_with_ids: the sender's gas coins, at the start version.
InitOwned(owner) ==
    /\ store = [i \in ObjectIDs |->
                   IF i \in GasIds
                   THEN [st |-> "live", ver |-> 1, owner |-> AddressOwner(owner[i]), ty |-> "Gas"]
                   ELSE NoObject]
    /\ holder = [i \in ObjectIDs |-> NoId]
    /\ nextId = Cardinality(GasIds)
    /\ lastTx = [signer |-> "none", gas |-> NoId, fn |-> "none", cmds |-> <<>>,
                 inputs |-> {}, shared |-> FALSE, pre |-> store, preHolder |-> holder,
                 touched |-> {},
                 executed |-> FALSE]
    /\ result = Outcome("none", "none", NoId, NoId, NoEffects)
    /\ packages = [i \in ObjectIDs |-> {}]
    /\ build = NoBuild
    /\ walk = NoWalk
    /\ srv = NoServer
    /\ peer = NoCall

\* init_state_with_ids(vec![(sender, gas)]): the gas coins belong to the sender.
Init == InitOwned([g \in GasIds |-> Sender])

\* The authority started with a gas coin for each of two addresses.
InitTwoSigners == InitOwned([g \in GasIds |-> IF g = 0 THEN Sender ELSE "B"])

NextWrapping ==
    \/ Wrapping_create_child
    \/ Wrapping_create_parent
    \/ Wrapping_extract_child
    \/ Wrapping_set_child
    \/ Wrapping_delete_parent

NextOwning ==
    \/ Owner_create_parent
    \/ Owner_create_child
    \/ Owner_mutate_child
    \/ Owner_add_child
    \/ Owner_mutate_child_with_parent
    \/ Owner_create_parent_and_child
    \/ Owner_delete_parent_and_child

NextOwnerWrap ==
    \/ Owner_create_parent
    \/ Owner_create_child
    \/ Owner_add_child_wrapped
    \/ Owner_create_parent_and_child_wrapped
    \/ Owner_delete_parent_and_child_wrapped

NextVector ==
    \/ Vector_mint
    \/ Vector_mint_another
    \/ Vector_mint_shared
    \/ Vector_obj_vec_destroy
    \/ Vector_two_obj_vec_destroy
    \/ Vector_same_objects
    \/ Vector_same_objects_ref
    \/ Vector_obj_vec_empty
    \/ Vector_type_param_vec_empty

\* The vector functions with and without a type parameter, on objects of the
\* right and of the wrong type.
NextVectorAny ==
    \/ Vector_prim_vec_len
    \/ Vector_any
    \/ Vector_any_error
    \/ Vector_mint
    \/ Vector_mint_another
    \/ Vector_obj_vec_destroy
    \/ Vector_two_obj_vec_destroy

NextPackage ==
    \/ Publish
    \/ PublishPackage
    \/ Check_unpublished_dependencies
    \/ Deps_delegate

\* What the tests do with shared objects and packages.
NextShared ==
    \/ PublishPackage
    \/ Deps_delegate
    \/ Vector_mint
    \/ Vector_mint_shared
    \/ Vector_obj_vec_destroy

\* Objects that are shared or frozen, and the transactions that would delete
\* them, take them by value, give them another owner or write them.
NextPermanent ==
    \/ Vector_mint
    \/ Vector_mint_shared
    \/ Vector_mint_child
    \/ Vector_obj_vec_destroy
    \/ Freeze_object
    \/ Shared_as_owned_input
    \/ Immutable_as_argument

\* The transactions the tests expect to be rejected, and what sets them up.
NextInputErrors ==
    \/ Owner_create_parent
    \/ Owner_create_child
    \/ Owner_mutate_child
    \/ Owner_add_child
    \/ Owner_add_child_wrapped
    \/ Vector_obj_vec_empty

\* Creating, wrapping and unwrapping, paid with either gas coin.
NextCommute ==
    \/ Wrapping_create_child
    \/ Wrapping_create_parent
    \/ Wrapping_extract_child

\* The transactions the tests expect to fail in execution, and their set-up.
NextFailures ==
    \/ Publish
    \/ Vector_mint
    \/ Vector_mint_another
    \/ Vector_obj_vec_destroy
    \/ Vector_same_objects

\* Packages and frozen objects, and the uses made of them.
NextImmutable ==
    \/ Publish
    \/ Vector_mint
    \/ Wrapping_create_child
    \/ Freeze_object
    \/ Immutable_as_argument

\* Calls with pure arguments.
NextString ==
    \/ String_arg
    \/ String_vec_arg
    \/ String_nested_arg

\* The resolution of an owner chain over any table of objects, consistent or
\* not: links may form a cycle or name an object the table does not have.
Resolve_begin ==
    /\ walk.verdict = "idle"
    /\ \E table \in [ChainIds -> ChainObjects], start \in ChainIds, signer \in Addrs :
          walk' = [table |-> table, at |-> start, signer |-> signer, depth |-> 0,
                   verdict |-> "walking"]
    /\ UNCHANGED <<core, srv, peer>>
Resolve_step ==
    /\ walk.verdict = "walking"
    /\ walk' = ResolveStep(walk)
    /\ UNCHANGED <<core, srv, peer>>

NextResolve == Resolve_begin \/ Resolve_step

\* server(listener, app, acceptor): make the handle, spawn the shutdown task
\* and serve, with or without the TLS acceptor, on a unix build or another.
server ==
    /\ srv.serving = "no"
    /\ \E u \in BOOLEAN, acc \in BOOLEAN :
          srv' = [srv EXCEPT !.unix = u, !.acceptor = acc, !.serving = "serving",
                             !.task = "spawned"]
    /\ UNCHANGED <<core, walk, peer>>
\* The shutdown task is polled for the first time: select! polls its two
\* branches one after the other, in an order picked at random.
shutdown_signal_select ==
    /\ srv.task = "spawned"
    /\ srv.serving # "killed"
    /\ \E order \in {<<"ctrl_c", "terminate">>, <<"terminate", "ctrl_c">>} :
          srv' = [srv EXCEPT !.task = "polling", !.poll = order]
    /\ UNCHANGED <<core, walk, peer>>
\* The branch polled installs the handler of its signal, or its expect fails
\* and the task panics; the terminate future of a build that is not unix is
\* std::future::pending and installs nothing. The task waits in select! once
\* both branches have been polled.
install_handler ==
    /\ srv.task = "polling"
    /\ srv.serving # "killed"
    /\ LET sig == Head(srv.poll) IN
       IF sig = "terminate" /\ ~srv.unix
       THEN srv' = [srv EXCEPT !.poll = Tail(srv.poll),
                               !.task = IF Tail(srv.poll) = <<>> THEN "waiting"
                                        ELSE "polling"]
       ELSE /\ srv.handler[sig] = "default"
            /\ \E installed \in BOOLEAN :
                  srv' = IF installed THEN [srv EXCEPT !.handler[sig] = "installed"]
                         ELSE [srv EXCEPT !.task = "panicked"]
    /\ UNCHANGED <<core, walk, peer>>
\* With the handler installed the branch subscribes its listener; the
\* future that receives the signal has not been polled yet.
register_listener ==
    /\ srv.task = "polling"
    /\ srv.serving # "killed"
    /\ LET sig == Head(srv.poll) IN
       /\ srv.handler[sig] = "installed"
       /\ srv' = [srv EXCEPT !.handler[sig] = "listening"]
    /\ UNCHANGED <<core, walk, peer>>
\* The first poll of the listening branch is pending, whether or not a signal
\* has been noted already (the driver may not have broadcast it yet): select!
\* goes on to the next branch, or waits when there is none left.
recv_pending ==
    /\ srv.task = "polling"
    /\ srv.serving # "killed"
    /\ LET sig == Head(srv.poll) IN
       /\ srv.handler[sig] = "listening"
       /\ srv' = [srv EXCEPT !.poll = Tail(srv.poll),
                              !.task = IF Tail(srv.poll) = <<>> THEN "waiting"
                                       ELSE "polling"]
    /\ UNCHANGED <<core, walk, peer>>
\* A Ctrl-C or, on unix, a SIGTERM is delivered. With no handler the default
\* action ends the process; with the handler installed and the listener not
\* yet registered the process survives and the signal is noted or lost; with
\* the listener registered the signal is noted.
Signal ==
    /\ srv.serving \in {"serving", "draining"}
    /\ \E sig \in Signals, noted \in BOOLEAN :
          /\ sig = "terminate" => srv.unix
          /\ srv.handler[sig] # "installed" => noted
          /\ srv' = CASE srv.handler[sig] = "default" -> [srv EXCEPT !.serving = "killed"]
                      [] srv.handler[sig] = "listening" \/ noted ->
                            [srv EXCEPT !.arrived = srv.arrived \cup {sig}]
                      [] OTHER -> [srv EXCEPT !.lost = srv.lost \cup {sig}]
    /\ UNCHANGED <<core, walk, peer>>
\* select! completes on the first future that is ready and the task calls
\* h.graceful_shutdown(Some(Duration::from_secs(grace))): a branch that is
\* ready when it is polled for the first time, the branches after it never
\* being polled, or either branch once the task waits.
shutdown_signal_received ==
    /\ srv.serving # "killed"
    /\ \/ srv.task = "waiting" /\ (ctrl_c(srv) \/ terminate(srv))
       \/ /\ srv.task = "polling"
          /\ srv.handler[Head(srv.poll)] = "listening"
          /\ \/ Head(srv.poll) = "ctrl_c" /\ ctrl_c(srv)
             \/ Head(srv.poll) = "terminate" /\ terminate(srv)
    /\ srv' = [srv EXCEPT !.task = "done", !.shutdowns = srv.shutdowns + 1,
                          !.grace = GraceSeconds,
                          !.serving = IF srv.serving = "serving" THEN "draining"
                                      ELSE srv.serving]
    /\ UNCHANGED <<core, walk, peer>>
\* The server accepts a connection while it serves; a connection ends.
Connect ==
    /\ srv.serving = "serving"
    /\ srv.conns < MaxConns
    /\ srv' = [srv EXCEPT !.conns = srv.conns + 1]
    /\ UNCHANGED <<core, walk, peer>>
Disconnect ==
    /\ srv.serving \in {"serving", "draining"}
    /\ srv.conns > 0
    /\ srv' = [srv EXCEPT !.conns = srv.conns - 1]
    /\ UNCHANGED <<core, walk, peer>>
\* A second of the grace period passes while connections are still open.
Tick ==
    /\ srv.serving = "draining"
    /\ srv.conns > 0
    /\ srv.elapsed < srv.grace
    /\ srv' = [srv EXCEPT !.elapsed = srv.elapsed + 1]
    /\ UNCHANGED <<core, walk, peer>>
\* serve returns: no connection is left, or the grace period is over.
serve_returns ==
    /\ srv.serving = "draining"
    /\ srv.conns = 0 \/ srv.elapsed = srv.grace
    /\ srv' = [srv EXCEPT !.serving = "stopped", !.conns = 0]
    /\ UNCHANGED <<core, walk, peer>>

NextShutdown ==
    \/ server
    \/ shutdown_signal_select
    \/ install_handler
    \/ register_listener
    \/ recv_pending
    \/ Signal
    \/ shutdown_signal_received
    \/ Connect
    \/ Disconnect
    \/ Tick
    \/ serve_returns

\* create_server_cert_enforce_peer(peer_config), up to the let-else
create_server_cert_enforce_peer ==
    /\ peer.pc = "idle"
    /\ \E c \in Paths, k \in Paths, u \in Urls, cf \in CertFiles, kf \in KeyFiles :
          LET p == [peer EXCEPT !.certificate_file = c, !.private_key = k, !.url = u,
                                !.certfile = cf, !.keyfile = kf]
          IN peer' = IF missing_certs(p)
                     THEN [p EXCEPT !.pc = "returned",
                                    !.ret = [kind |-> "Err",
                                             msg |-> "missing certs to initialize server",
                                             provider |-> NoProvider]]
                     ELSE [p EXCEPT !.pc = "checked"]
    /\ UNCHANGED <<core, walk, srv>>
\* let allower = SuiNodeProvider::new(peer_config.url, peer_config.interval);
SuiNodeProvider_new ==
    /\ peer.pc = "checked"
    /\ peer' = [peer EXCEPT !.pc = "created", !.allower = [url |-> peer.url, polling |-> FALSE]]
    /\ UNCHANGED <<core, walk, srv>>
\* allower.poll_peer_list();
poll_peer_list ==
    /\ peer.pc = "created"
    /\ peer' = [peer EXCEPT !.pc = "polling", !.allower.polling = TRUE]
    /\ UNCHANGED <<core, walk, srv>>
\* load_certs(&certificate_path): open and parse the file, or panic
load_certs ==
    /\ peer.pc = "polling"
    /\ peer' = IF peer.certificate_file = "None" \/ peer.certfile = "absent"
               THEN [peer EXCEPT !.pc = "panicked"]
               ELSE [peer EXCEPT !.reads = Append(peer.reads, "certificate_file"),
                                 !.pc = IF peer.certfile = "garbage" THEN "panicked"
                                        ELSE "certs"]
    /\ UNCHANGED <<core, walk, srv>>
\* load_private_key(&private_key_path): open the file and find a key, or panic
load_private_key ==
    /\ peer.pc = "certs"
    /\ peer' = IF peer.private_key = "None" \/ peer.keyfile = "absent"
               THEN [peer EXCEPT !.pc = "panicked"]
               ELSE [peer EXCEPT !.reads = Append(peer.reads, "private_key"),
                                 !.pc = IF peer.keyfile = "nokey" THEN "panicked" ELSE "key"]
    /\ UNCHANGED <<core, walk, srv>>
\* CertVerifier::new(allower.clone()).rustls_server_config(..)?; Ok((c, Some(allower)))
rustls_server_config ==
    /\ peer.pc = "key"
    /\ \E built \in BOOLEAN :
          peer' = [peer EXCEPT !.pc = "returned",
                               !.ret = IF built
                                       THEN [kind |-> "Ok", msg |-> "none",
                                             provider |-> peer.allower]
                                       ELSE [kind |-> "Err", msg |-> "rustls",
                                             provider |-> NoProvider]]
    /\ UNCHANGED <<core, walk, srv>>

NextEnforcePeer ==
    \/ create_server_cert_enforce_peer
    \/ SuiNodeProvider_new
    \/ poll_peer_list
    \/ load_certs
    \/ load_private_key
    \/ rustls_server_config

\* A child named as an argument next to its parent.
NextChildArgument ==
    \/ Owner_create_parent
    \/ Owner_create_child
    \/ Owner_add_child
    \/ Owner_mutate_child_with_parent
    \/ Vector_mint
    \/ Vector_mint_child
    \/ Vector_child_access

\* A child given to a parent and moved to a second parent.
NextTransfer ==
    \/ Owner_create_parent
    \/ Owner_create_child
    \/ Owner_add_child
    \/ Owner_create_another_parent
    \/ Owner_transfer_child

Next == NextShutdown \/ NextEnforcePeer \/ NextResolve \/ NextChildArgument \/ NextTransfer \/ NextString \/ NextImmutable \/ NextPackage \/ NextShared \/ NextPermanent \/ NextCommute \/ NextFailures \/ NextInputErrors \/ NextWrapping \/ NextOwning \/ NextOwnerWrap \/ NextVector \/ NextVectorAny

\* The whole authority, and one specification per test package.
Spec == Init /\ [][Next]_vars
SpecWrapping == Init /\ [][NextWrapping]_vars
SpecOwning == Init /\ [][NextOwning]_vars
SpecOwnerWrap == Init /\ [][NextOwnerWrap]_vars
SpecVector == Init /\ [][NextVector]_vars
SpecVectorAny == Init /\ [][NextVectorAny]_vars
SpecPublish == Init /\ [][Publish]_vars
SpecPackage == Init /\ [][NextPackage]_vars
SpecShared == Init /\ [][NextShared]_vars
SpecPermanent == Init /\ [][NextPermanent]_vars
SpecInputErrors == Init /\ [][NextInputErrors]_vars
SpecFailures == Init /\ [][NextFailures]_vars
SpecCommute == Init /\ [][NextCommute]_vars
SpecImmutable == InitTwoSigners /\ [][NextImmutable]_vars
SpecString == Init /\ [][NextString]_vars
SpecChildArgument == Init /\ [][NextChildArgument]_vars
SpecTransfer == Init /\ [][NextTransfer]_vars
\* The walk is a loop of the authority: it keeps taking its next step.
\* The shutdown task is a spawned task of the runtime: once it can run it does.
SpecShutdown ==
    /\ Init /\ [][NextShutdown]_vars
    /\ WF_vars(shutdown_signal_select) /\ WF_vars(install_handler)
    /\ WF_vars(register_listener) /\ WF_vars(recv_pending)
    /\ WF_vars(shutdown_signal_received)
SpecEnforcePeer == Init /\ [][NextEnforcePeer]_vars
SpecResolve == Init /\ [][NextResolve]_vars /\ WF_vars(Resolve_step)

\* ==================================================================== claims
\* Reading of the last transaction's effects.
RefIds(refs) == {r[1] : r \in refs}
OwnedRefs(rs) == {r.ref : r \in rs}
Eff == result.effects
CreatedRefs == OwnedRefs(Eff.created)
MutatedRefs == OwnedRefs(Eff.mutated)
UnwrappedRefs == OwnedRefs(Eff.unwrapped)
WrittenRefs ==
    CreatedRefs \cup MutatedRefs \cup UnwrappedRefs \cup Eff.deleted \cup Eff.wrapped
        \cup Eff.unwrapped_then_deleted \cup OwnedRefs(Eff.gas_object)
Pre == lastTx.pre
Succeeded == result.status = "success"
Committed == result.status \in {"success", "failure"}
Rejected == result.status = "error"

\* C1: every object a successful transaction writes (created, mutated, wrapped,
\* unwrapped, deleted, the gas object) carries the version 1 + max of the
\* pre-transaction versions of the transaction's input objects and gas object,
\* so all of them carry the same version.
C1_LamportVersion ==
    Succeeded =>
        LET versions == {Pre[i].ver : i \in lastTx.inputs \cup {lastTx.gas}}
            top == CHOOSE m \in versions : \A y \in versions : y <= m
        IN /\ \A r \in WrittenRefs : r[2] = top + 1
           /\ \A i \in ObjectIDs : store[i] # Pre[i] => store[i].ver = top + 1
           /\ WrittenRefs # {}

\* A successful transaction whose gas object is older than one of its inputs
\* and which wrote more than the gas object.
C1_Witness ==
    /\ Succeeded
    /\ \E i \in lastTx.inputs : Pre[i].ver > Pre[lastTx.gas].ver
    /\ Eff.wrapped # {}
    /\ Eff.created # {}

\* C2: at every state change of an object (creation, mutation, wrap, unwrap,
\* deletion) its version is strictly larger than every version it had before.
C2_VersionStrictlyIncreases ==
    \A i \in ObjectIDs : store[i] # Pre[i] => store[i].ver > Pre[i].ver

\* An object that comes back from its wrapped tombstone.
C2_Witness ==
    \E i \in ObjectIDs : Pre[i].st = "wrapped" /\ store[i].st = "live" /\ Succeeded

\* C3: a wrap lists the object in `wrapped` with the WRAPPED digest at a larger
\* version; the unwrap lists the same id in `unwrapped`, not in `created`, with
\* a live digest at a larger version again.
C3_WrapUnwrapRoundTrip ==
    \A i \in ObjectIDs :
        /\ (Pre[i].st = "live" /\ store[i].st = "wrapped") =>
              /\ <<i, store[i].ver, OBJECT_DIGEST_WRAPPED>> \in Eff.wrapped
              /\ store[i].ver > Pre[i].ver
              /\ i \notin RefIds(CreatedRefs \cup MutatedRefs \cup UnwrappedRefs)
        /\ (Pre[i].st = "wrapped" /\ store[i].st = "live") =>
              /\ <<i, store[i].ver, LiveDigest>> \in UnwrappedRefs
              /\ store[i].ver > Pre[i].ver
              /\ i \notin RefIds(CreatedRefs \cup MutatedRefs \cup Eff.wrapped)
        /\ i \in RefIds(Eff.wrapped) => Pre[i].st = "live" /\ store[i].st = "wrapped"
        /\ i \in RefIds(UnwrappedRefs) => Pre[i].st # "live" /\ store[i].st = "live"

\* extract_child has just surfaced a child that an earlier transaction wrapped.
C3_Witness ==
    /\ Succeeded
    /\ lastTx.fn = "object_wrapping::extract_child"
    /\ \E i \in RefIds(UnwrappedRefs) : Pre[i].st = "wrapped" /\ Pre[i].ver > 1

\* Number of classification sets that list id i.
SetsListing(i) ==
    Cardinality({k \in 1..6 :
        i \in RefIds(<<CreatedRefs, MutatedRefs, UnwrappedRefs, Eff.deleted, Eff.wrapped,
                       Eff.unwrapped_then_deleted>>[k])})

\* C4 as stated: every object id is in at most one classification set and every
\* id the transaction touched is in exactly one.
C4_Original ==
    Succeeded =>
        /\ \A i \in ObjectIDs : SetsListing(i) <= 1
        /\ \A i \in lastTx.touched : SetsListing(i) = 1

\* C4 amended: every id is in at most one classification set; a touched id with
\* a top-level version before or after the transaction is in exactly one; a
\* touched id that never had a top-level version (an object created inside its
\* holder and deleted with it) is in none.
C4_ExactlyOneSet ==
    Succeeded =>
        /\ \A i \in ObjectIDs : SetsListing(i) <= 1
        /\ \A i \in lastTx.touched :
              SetsListing(i) = (IF Pre[i].st = "none" /\ store[i].st = "none" THEN 0 ELSE 1)
        /\ RefIds(Eff.deleted) \cap RefIds(Eff.unwrapped_then_deleted) = {}

\* A deletion that reports ids in `deleted` and in `unwrapped_then_deleted`.
C4_Witness ==
    /\ Succeeded
    /\ Eff.deleted # {}
    /\ Eff.unwrapped_then_deleted # {}

\* C5: delete_parent on a parent holding one wrapped child that was live in an
\* earlier transaction reports exactly the parent in `deleted` and exactly the
\* child in `unwrapped_then_deleted`, both with the DELETED digest and the
\* version 1 + max(parent version, gas version).
C5_DeleteParentWithWrappedChild ==
    \A p \in ObjectIDs :
        (/\ Succeeded
         /\ lastTx.fn = "object_wrapping::delete_parent"
         /\ lastTx.inputs = {p}
         /\ \E c \in ObjectIDs : {x \in ObjectIDs : lastTx.preHolder[x] = p} = {c}
                                  /\ Pre[c].st = "wrapped")
        => LET c == CHOOSE x \in ObjectIDs : lastTx.preHolder[x] = p
               pv == Pre[p].ver
               gv == Pre[lastTx.gas].ver
               v == 1 + (IF pv >= gv THEN pv ELSE gv)
           IN /\ Eff.deleted = {<<p, v, OBJECT_DIGEST_DELETED>>}
              /\ Eff.unwrapped_then_deleted = {<<c, v, OBJECT_DIGEST_DELETED>>}

\* The parent was deleted with its wrapped child, paid with the older coin.
C5_Witness ==
    /\ Succeeded
    /\ lastTx.fn = "object_wrapping::delete_parent"
    /\ Cardinality(Eff.unwrapped_then_deleted) = 1
    /\ \E p \in lastTx.inputs : Pre[p].ver > Pre[lastTx.gas].ver

\* C6: modified_at_versions holds exactly (id, version at the start) of the
\* objects that were live top-level objects at the start and that the
\* transaction mutated (the gas object among them), wrapped or deleted; an id
\* without an independently visible version has no entry.
C6_ModifiedAtVersions ==
    Committed =>
        /\ Eff.modified_at_versions =
              {<<i, Pre[i].ver>> :
                  i \in RefIds(MutatedRefs \cup Eff.wrapped \cup Eff.deleted)}
        /\ \A e \in Eff.modified_at_versions : Pre[e[1]].st = "live" /\ e[2] >= 1
        /\ \E e \in Eff.modified_at_versions : e[1] = lastTx.gas

\* The parent, its field and a child that was never live are deleted together.
C6_Witness ==
    /\ Succeeded
    /\ lastTx.fn = "object_owner::delete_parent_and_child_wrapped"
    /\ \E i \in lastTx.touched : Pre[i].st = "none"
    /\ Cardinality(Eff.modified_at_versions) = 3

\* The case of C7: same_objects(o, v) or same_objects_ref(&o, v) called with a
\* live object of the sender, of the vector's element type, that is also an
\* element of the vector v.
C7_Scalar == lastTx.cmds[2].args[1].v
C7_Case ==
    /\ lastTx.fn \in {"entry_point_vector::same_objects", "entry_point_vector::same_objects_ref"}
    /\ \E k \in 1..Len(lastTx.cmds[1].args) : lastTx.cmds[1].args[k].v = C7_Scalar
    /\ \A k \in 1..Len(lastTx.cmds[1].args) :
          /\ Pre[lastTx.cmds[1].args[k].v].st = "live"
          /\ Pre[lastTx.cmds[1].args[k].v].ty = "entry_point_vector::Obj"
          /\ Pre[lastTx.cmds[1].args[k].v].owner = AddressOwner(lastTx.signer)

\* C7 as stated: the failure is InvalidUsageOfTakenValue reported at the
\* vector's command/argument index, that is at the MakeMoveVec command and the
\* element, or at the vector argument of the call.
C7_Original ==
    C7_Case =>
        /\ result.status = "failure"
        /\ result.error = "InvalidUsageOfTakenValue"
        /\ \/ /\ result.command = 0
              /\ \E k \in 1..Len(lastTx.cmds[1].args) :
                    lastTx.cmds[1].args[k].v = C7_Scalar /\ result.arg_idx = k - 1
           \/ /\ result.command = CallIndex(lastTx.cmds)
              /\ \E a \in 1..Len(lastTx.cmds[2].args) :
                    lastTx.cmds[2].args[a].k = "Result" /\ result.arg_idx = a - 1

\* C7 amended: the transaction is executed and fails with
\* InvalidUsageOfTakenValue reported at the move call (the command after the
\* MakeMoveVec that took the object) and at the index of the scalar argument,
\* by value and by reference alike; nothing but the gas object changes.
C7_TakenValueAtScalarUse ==
    C7_Case =>
        /\ result.status = "failure"
        /\ result.error = "InvalidUsageOfTakenValue"
        /\ result.command = CallIndex(lastTx.cmds)
        /\ \E a \in 1..Len(lastTx.cmds[2].args) :
              /\ (lastTx.cmds[2].args[a].k = "Input" /\ lastTx.cmds[2].args[a].v = C7_Scalar)
              /\ result.arg_idx = a - 1
        /\ \A i \in ObjectIDs \ {lastTx.gas} : store[i] = Pre[i]

\* same_objects_ref failed on an object passed by reference and in the vector.
C7_Witness ==
    /\ C7_Case
    /\ lastTx.fn = "entry_point_vector::same_objects_ref"
    /\ result.error = "InvalidUsageOfTakenValue"

\* The case of C8: a call whose only argument is a MakeMoveVec without elements.
C8_EmptyVec(tagged) ==
    /\ lastTx.fn \in {"entry_point_vector::obj_vec_empty",
                      "entry_point_vector::type_param_vec_empty"}
    /\ lastTx.cmds[1].kind = "MakeMoveVec"
    /\ Len(lastTx.cmds[1].args) = 0
    /\ (lastTx.cmds[1].tag # "none") = tagged

\* C8: an empty vector of objects without a type tag is rejected with the input
\* error EmptyCommandInput and produces no effects, for the concrete and for
\* the generic callee; with a type tag the same transaction succeeds.
C8_EmptyVectorNeedsTag ==
    /\ C8_EmptyVec(FALSE) =>
          /\ Rejected
          /\ result.error = "EmptyCommandInput"
          /\ Eff = NoEffects
          /\ store = Pre
    /\ C8_EmptyVec(TRUE) => Succeeded

\* The generic callee was refused an untagged empty vector.
C8_Witness ==
    /\ C8_EmptyVec(FALSE)
    /\ lastTx.fn = "entry_point_vector::type_param_vec_empty"
    /\ Rejected

\* C9: a transaction naming an object-owned child as an argument is rejected
\* without effects; mutate_child on that child, signed by the sender, fails
\* with InvalidChildObjectArgument, not with the error of a wrong signer, while
\* the same call on a child owned by the signer's address succeeds.
C9_Child == lastTx.cmds[1].args[1].v
C9_ChildNeedsParent ==
    /\ (\E i \in InputObjects(lastTx.cmds) :
            Pre[i].st = "live" /\ Pre[i].owner.kind = "ObjectOwner")
        => Rejected /\ Eff = NoEffects /\ store = Pre
    /\ lastTx.fn = "object_owner::mutate_child" =>
          /\ (Pre[C9_Child].st = "live" /\ Pre[C9_Child].owner.kind = "ObjectOwner"
              /\ lastTx.signer = Sender)
                => Rejected /\ result.error = "InvalidChildObjectArgument"
          /\ (Pre[C9_Child].st = "live" /\ Pre[C9_Child].owner = AddressOwner(lastTx.signer))
                => Succeeded
          /\ lastTx.signer # Sender => Rejected /\ result.error = "IncorrectSigner"

\* mutate_child was refused on a child that add_child gave to a parent.
C9_Witness ==
    /\ lastTx.fn = "object_owner::mutate_child"
    /\ result.error = "InvalidChildObjectArgument"
    /\ Pre[C9_Child].ver >= 3

\* The modules of the last publish.
C10_Modules == lastTx.cmds[1].modules
C10_OnlyEmptyBlobs == \A i \in 1..Len(C10_Modules) : C10_Modules[i] = "empty"

\* C10 as stated: a publish is rejected with EmptyCommandInput when the module
\* list is empty and when it holds only empty module blobs.
C10_Original ==
    (lastTx.fn = "publish" /\ C10_OnlyEmptyBlobs)
        => Rejected /\ result.error = "EmptyCommandInput"

\* C10 amended: a publish with an empty module list is rejected with
\* EmptyCommandInput; a publish whose list holds only empty module blobs (at
\* least one) is executed and fails with VMVerificationOrDeserializationError
\* at command 0.
C10_EmptyPublish ==
    lastTx.fn = "publish" =>
        /\ C10_Modules = <<>> =>
              Rejected /\ result.error = "EmptyCommandInput" /\ store = Pre
        /\ (C10_Modules # <<>> /\ C10_OnlyEmptyBlobs) =>
              /\ result.status = "failure"
              /\ result.error = "VMVerificationOrDeserializationError"
              /\ result.command = 0

\* A publish of one empty module blob was executed and failed.
C10_Witness ==
    /\ lastTx.fn = "publish"
    /\ C10_Modules = <<"empty">>
    /\ result.status = "failure"

\* The last publish carried the same module twice.
C11_Duplicate ==
    /\ lastTx.fn = "publish"
    /\ \E i, j \in 1..Len(C10_Modules) : i # j /\ C10_Modules[i] = C10_Modules[j]

\* C11: a publish whose module list holds two identical modules never
\* succeeds: it is executed and committed (the gas object moves on) with
\* Failure VMVerificationOrDeserializationError at command 0, and it creates
\* no object, so no package.
C11_DuplicateModulesFail ==
    C11_Duplicate =>
        /\ result.status = "failure"
        /\ result.error = "VMVerificationOrDeserializationError"
        /\ result.command = 0
        /\ Eff.created = {}
        /\ store[lastTx.gas].ver > Pre[lastTx.gas].ver
        /\ \A i \in ObjectIDs \ {lastTx.gas} : store[i] = Pre[i]

\* The compiled module pushed twice, as in test_publish_duplicate_modules.
C11_Witness ==
    /\ C11_Duplicate
    /\ C10_Modules = <<"m1", "m1">>
    /\ result.status = "failure"

\* The package of the last build and its dependencies without an address.
C12_Package == CHOOSE pkg \in TestPackages : pkg.name = build.package
C12_Unpublished == {d \in C12_Package.deps : ~d.published}

\* C12: the publication of a package that has a dependency without a
\* published address fails with ModulePublishFailure, the message naming that
\* dependency, both when the dependencies are checked on their own and when
\* the publish transaction is sent, which is then refused with nothing
\* written; no such package is ever stored with its own modules only;
\* the same package published with the unpublished-dependency flag succeeds,
\* and the module map of the package it creates holds the package's own
\* modules together with the modules of that dependency.
C12_UnpublishedDependencies ==
    (build.package # "none" /\ C12_Unpublished # {}) =>
        /\ build.checked =>
              /\ build.error = "ModulePublishFailure"
              /\ \A d \in C12_Unpublished : d.name \in build.message
        /\ (~build.checked /\ ~build.with_unpublished_deps) =>
              /\ result.status = "error"
              /\ result.error = "ModulePublishFailure"
              /\ build.error = "ModulePublishFailure"
              /\ \A d \in C12_Unpublished : d.name \in build.message
              /\ store = Pre
              /\ Eff = NoEffects
        /\ \A i \in ObjectIDs : store[i].ty # "Package"
               \/ packages[i] # Range(C12_Package.modules)
        /\ (~build.checked /\ build.with_unpublished_deps) =>
              /\ Succeeded
              /\ \E c \in Eff.created :
                    /\ c.owner = Immutable
                    /\ store[c.ref[1]].ty = "Package"
                    /\ packages[c.ref[1]] =
                          Range(C12_Package.modules) \cup
                          UNION {Range(d.modules) : d \in C12_Unpublished}

\* depends_on_basics published with the flag: the module map holds
\* depends_on_basics and object_basics.
C12_Witness ==
    /\ build.package = "depends_on_basics"
    /\ build.with_unpublished_deps
    /\ Succeeded
    /\ \E i \in ObjectIDs : packages[i] = {"depends_on_basics", "object_basics"}

\* The package and the upgrade capability among the objects the last
\* transaction created.
C13_Packages == {c \in Eff.created : c.owner = Immutable}
C13_Caps == {c \in Eff.created : c.owner = AddressOwner(lastTx.signer)}

\* C13: a successful publish creates exactly one Immutable package object and
\* one upgrade capability owned by the sender's address, both new to the store
\* and listed in created with the version 1 + max(versions of the inputs and
\* the gas object); the latest-object lookup of the package returns exactly
\* the ref reported in the effects.
C13_PublishCreatesPackageAndCap ==
    (lastTx.fn = "publish" /\ Succeeded) =>
        LET versions == {Pre[i].ver : i \in lastTx.inputs \cup {lastTx.gas}}
            top == CHOOSE m \in versions : \A y \in versions : y <= m
        IN /\ Cardinality(C13_Packages) = 1
           /\ Cardinality(C13_Caps) = 1
           /\ Eff.created = C13_Packages \cup C13_Caps
           /\ \A c \in Eff.created :
                 /\ c.ref[2] = top + 1
                 /\ Pre[c.ref[1]].st = "none"
                 /\ store[c.ref[1]].owner = c.owner
           /\ \A c \in C13_Packages :
                 /\ store[c.ref[1]].ty = "Package"
                 /\ LatestObjectInfo(store, c.ref[1]) = c.ref
           /\ \A c \in C13_Caps : store[c.ref[1]].ty = "UpgradeCap"

\* A publish paid with a gas object that earlier transactions had moved on.
C13_Witness ==
    /\ lastTx.fn = "publish"
    /\ Succeeded
    /\ Pre[lastTx.gas].ver >= 2
    /\ C13_Packages # {}

\* C14: a transaction rejected with an input error (EmptyCommandInput,
\* ObjectNotFound, IncorrectSigner, InvalidChildObjectArgument) leaves the
\* object store as it was: no object's version, digest or owner changes, the
\* gas object is not charged, nothing is wrapped or unwrapped, and there is no
\* effects record.
C14_RejectedLeavesStore ==
    Rejected =>
        /\ result.error \in {"EmptyCommandInput", "ObjectNotFound", "IncorrectSigner",
                             "InvalidChildObjectArgument"}
        /\ \A i \in ObjectIDs :
              /\ store[i] = Pre[i]
              /\ ObjectRef(store, i) = ObjectRef(Pre, i)
              /\ LatestObjectInfo(store, i) = LatestObjectInfo(Pre, i)
        /\ store[lastTx.gas].ver = Pre[lastTx.gas].ver
        /\ holder = lastTx.preHolder
        /\ Eff = NoEffects

\* A child handed to a parent was named directly, after earlier transactions
\* had moved the gas object on.
C14_Witness ==
    /\ Rejected
    /\ result.error = "InvalidChildObjectArgument"
    /\ Pre[lastTx.gas].ver >= 2
    /\ lastTx.inputs # {}

\* C15: a transaction whose execution reports a typed failure (a command
\* argument error, a verification or deserialization error, an abort) is
\* committed: it returns an effects record with status Failure that carries
\* the error kind and the index of the offending command, and it consumes
\* gas, the gas object being written at a higher version.
C15_FailureIsCommitted ==
    result.status = "failure" =>
        /\ result.error \in {"InvalidUsageOfTakenValue", "TypeMismatch", "SharedObjectInVector",
                             "VMVerificationOrDeserializationError", "MoveAbort"}
        /\ result.command \in 0..(Len(lastTx.cmds) - 1)
        /\ result.error \in {"InvalidUsageOfTakenValue", "TypeMismatch", "SharedObjectInVector"}
              => result.arg_idx \in 0..(Len(lastTx.cmds[result.command + 1].args) - 1)
        /\ Eff # NoEffects
        /\ Eff.gas_object = {RefOwner(store, lastTx.gas)}
        /\ <<lastTx.gas, Pre[lastTx.gas].ver>> \in Eff.modified_at_versions
        /\ store[lastTx.gas].st = "live"
        /\ store[lastTx.gas].ver > Pre[lastTx.gas].ver

\* A publish failed in the verifier at command 0 and moved the gas object on.
C15_Witness ==
    /\ result.status = "failure"
    /\ result.error = "VMVerificationOrDeserializationError"
    /\ result.command = 0
    /\ store[lastTx.gas].ver = Pre[lastTx.gas].ver + 1

\* C16: a failed transaction is atomic: no object other than the gas object
\* has a changed version, digest or owner, nothing is created, wrapped,
\* unwrapped or deleted, and no id is drawn; the effects list the gas object
\* as the only mutation.
C16_FailureIsAtomic ==
    result.status = "failure" =>
        /\ \A i \in ObjectIDs \ {lastTx.gas} :
              /\ store[i] = Pre[i]
              /\ ObjectRef(store, i) = ObjectRef(Pre, i)
        /\ store[lastTx.gas].owner = Pre[lastTx.gas].owner
        /\ holder = lastTx.preHolder
        /\ Eff.created = {} /\ Eff.wrapped = {} /\ Eff.unwrapped = {}
        /\ Eff.deleted = {} /\ Eff.unwrapped_then_deleted = {}
        /\ RefIds(MutatedRefs) = {lastTx.gas}

\* obj_vec_destroy failed on a vector holding an object of the wrong type.
C16_Witness ==
    /\ result.status = "failure"
    /\ lastTx.fn = "entry_point_vector::obj_vec_destroy"
    /\ result.error = "TypeMismatch"
    /\ \E i \in lastTx.inputs : Pre[i].ty = "entry_point_vector::AnotherObj"

\* The transactions of the wrapping test that can be submitted in the current
\* state, the first of a pair paying with one gas coin and the second with
\* another.
C18_Tx(gas, fn, targs) == [gas |-> gas, fn |-> fn, targs |-> targs]
C18_Calls(g, fn) ==
    CASE Len(Sig(fn)) = 0 -> {C18_Tx(g, fn, <<>>)}
      [] Len(Sig(fn)) = 1 -> {C18_Tx(g, fn, <<Object(x)>>) : x \in OfType(Sig(fn)[1].ty)}
      [] OTHER -> {C18_Tx(g, fn, <<Object(x), Object(y)>>) :
                      x \in OfType(Sig(fn)[1].ty), y \in OfType(Sig(fn)[2].ty)}
C18_Txs(g) ==
    UNION {C18_Calls(g, fn) : fn \in {"object_wrapping::create_child",
                                      "object_wrapping::create_parent",
                                      "object_wrapping::extract_child",
                                      "object_wrapping::set_child",
                                      "object_wrapping::delete_parent"}}

\* One run of the core for t on the snapshot (st, hd), its fresh ids from n on.
C18_Run(st, hd, n, t) ==
    Apply(st, hd, n, Sender, t.gas, t.fn, call_move(t.fn, t.targs, "none"), t.targs, <<>>)

\* The objects t names.
C18_Named(t) == {t.gas} \cup {t.targs[i].ids[1] : i \in 1..Len(t.targs)}

\* Everything t reads or writes in the run r.
C18_Footprint(t, r) == C18_Named(t) \cup r.touched

\* Pairs of transactions that name different objects and whose fresh ids fit.
C18_Pairs ==
    {p \in C18_Txs(0) \X C18_Txs(1) :
        /\ C18_Named(p[1]) \cap C18_Named(p[2]) = {}
        /\ nextId + NumFresh(p[1].fn) + NumFresh(p[2].fn) <= Cardinality(GasIds) + MaxObjects}

\* The footprints of the pair, run on the current state, are disjoint.
C18_Disjoint(p) ==
    C18_Footprint(p[1], C18_Run(store, holder, nextId, p[1]))
        \cap C18_Footprint(p[2], C18_Run(store, holder, nextId + NumFresh(p[1].fn), p[2])) = {}

\* C18: two transactions that touch disjoint sets of single-owner objects, with
\* distinct gas objects, commute: run in either order from the same state they
\* leave the same object store and containment, and each returns the same
\* outcome and effects record in both orders. As the ids a transaction creates
\* are its own, each keeps its ids in either order.
C18_DisjointCommute ==
    \A p \in C18_Pairs :
        LET n1 == nextId
            n2 == nextId + NumFresh(p[1].fn)
            a1 == C18_Run(store, holder, n1, p[1])
            b2 == C18_Run(store, holder, n2, p[2])
            a12 == C18_Run(a1.store, a1.holder, n2, p[2])
            b21 == C18_Run(b2.store, b2.holder, n1, p[1])
        IN C18_Footprint(p[1], a1) \cap C18_Footprint(p[2], b2) = {} =>
              /\ a12.store = b21.store
              /\ a12.holder = b21.holder
              /\ a1.outcome = b21.outcome
              /\ a12.outcome = b2.outcome

\* A state with a disjoint pair in which both transactions succeed, one
\* creating a child and the other unwrapping one from its parent.
C18_Witness ==
    \E p \in C18_Pairs :
        /\ C18_Disjoint(p)
        /\ p[1].fn = "object_wrapping::create_child"
        /\ p[2].fn = "object_wrapping::extract_child"
        /\ C18_Run(store, holder, nextId, p[1]).status = "success"
        /\ C18_Run(store, holder, nextId + 1, p[2]).status = "success"

\* C19: after a transaction wraps or deletes an object, the latest-object
\* lookup of its id returns ObjectNotFound, and as long as the id stays wrapped
\* or deleted no lookup returns a ref with the WRAPPED or DELETED digest; after
\* a transaction unwraps an object, the lookup returns exactly the ref listed
\* in unwrapped.
C19_LatestLookup ==
    /\ Succeeded =>
          /\ \A r \in Eff.wrapped \cup Eff.deleted \cup Eff.unwrapped_then_deleted :
                LatestObjectInfo(store, r[1]) = "ObjectNotFound"
          /\ \A u \in Eff.unwrapped : LatestObjectInfo(store, u.ref[1]) = u.ref
    /\ \A i \in ObjectIDs :
          \/ LatestObjectInfo(store, i) = "ObjectNotFound"
          \/ /\ store[i].st = "live"
             /\ LatestObjectInfo(store, i)[3] \notin {OBJECT_DIGEST_WRAPPED, OBJECT_DIGEST_DELETED}

\* extract_child surfaced a child that an earlier transaction had wrapped.
C19_Witness ==
    /\ Succeeded
    /\ lastTx.fn = "object_wrapping::extract_child"
    /\ \E u \in Eff.unwrapped :
          /\ Pre[u.ref[1]].st = "wrapped"
          /\ LatestObjectInfo(Pre, u.ref[1]) = "ObjectNotFound"
          /\ LatestObjectInfo(store, u.ref[1]) = u.ref

\* C20: an object whose owner is Shared stays a live object with the same
\* Shared owner in every later state, and an object whose owner is Immutable
\* stays a live Immutable object in every later state.
C20_SharedImmutablePermanent ==
    [][\A i \in ObjectIDs :
          (store[i].st = "live" /\ store[i].owner.kind \in {"Shared", "Immutable"})
              => (store'[i].st = "live" /\ store'[i].owner = store[i].owner)]_vars

\* A transaction on the shared-object path took a shared object by value to
\* freeze it: it was executed and failed, and the object is still shared with
\* the same initial version, while a frozen object is in the store.
C20_Witness ==
    /\ lastTx.fn \in DOMAIN FreezeFns
    /\ lastTx.shared
    /\ lastTx.executed
    /\ result.status = "failure"
    /\ result.error = "InvalidOwnerTransition"
    /\ \E i \in lastTx.inputs :
          /\ Pre[i].owner.kind = "Shared"
          /\ store[i].owner = Pre[i].owner
          /\ store[i].owner.isv >= 2
    /\ \E i \in ObjectIDs : store[i].st = "live" /\ store[i].owner = Immutable

\* C21: a transaction, whoever signs it, leaves every object that was Immutable
\* at its start with the same version and digest, and lists it in none of
\* mutated, wrapped, deleted.
C21_ImmutableNeverMutated ==
    \A i \in ObjectIDs :
        (Pre[i].st = "live" /\ Pre[i].owner = Immutable)
            => /\ ObjectRef(store, i) = ObjectRef(Pre, i)
               /\ i \notin RefIds(MutatedRefs \cup Eff.wrapped \cup Eff.deleted)

\* An address other than the one that froze the object, paying with its own
\* gas coin, named the frozen object as the mutable argument of mint_child,
\* whose parameter has the object's type: the transaction was refused and the
\* object is as it was.
C21_Witness ==
    /\ lastTx.fn = "entry_point_vector::mint_child"
    /\ lastTx.signer # Sender
    /\ Pre[lastTx.gas].owner = AddressOwner(lastTx.signer)
    /\ result.status = "error"
    /\ result.error = "ImmutableObjectMutation"
    /\ \E i \in lastTx.inputs :
          /\ Pre[i].owner = Immutable
          /\ Pre[i].ty = "entry_point_vector::Obj"
          /\ store[i] = Pre[i]

\* The strings of the tests that are ASCII, and those that are UTF-8.
C22_Ascii == {SomeString}
C22_Utf8 == {SomeString, Utf8Str, Utf8Str1, Utf8Str2, Utf8Long}
\* The encodings of values of a type built from the tests' strings, each with
\* whether every string in it is valid for the type.
RECURSIVE C22_Enc(_)
C22_Enc(ty) ==
    CASE ty = <<"ascii">> ->
            {<<bcs_bytes(s), s \in C22_Ascii>> : s \in RawStrings \cup VecStrings}
      [] ty = <<"utf8">> ->
            {<<bcs_bytes(s), s \in C22_Utf8>> : s \in RawStrings \cup VecStrings}
      [] Head(ty) = "option" ->
            {<<bcs_none, TRUE>>} \cup {<<bcs_some(e[1]), e[2]>> : e \in C22_Enc(Tail(ty))}
      [] Head(ty) = "vector" ->
            {<<bcs_seq(<<>>), TRUE>>}
                \cup {<<bcs_seq(<<e[1]>>), e[2]>> : e \in C22_Enc(Tail(ty))}
                \cup {<<bcs_seq(<<e[1], f[1]>>), e[2] /\ f[2]>> :
                         e \in C22_Enc(Tail(ty)), f \in C22_Enc(Tail(ty))}
C22_Fails(arg_idx) ==
    /\ result.status = "failure"
    /\ result.error = "InvalidBCSBytes"
    /\ result.arg_idx = arg_idx
    /\ result.command = 0

\* C22: a committed call of an entry_point_string function fails with
\* InvalidBCSBytes at argument 0 of command 0 when its first argument encodes a
\* value holding a string that is not ASCII (for an ASCII parameter) or not
\* UTF-8 (for a UTF-8 parameter), alone or inside a vector or an option, or
\* encodes a vector of two strings where an option is expected; it fails at
\* argument 1 when only the length argument is cut short; and it succeeds when
\* every argument is a valid encoding.
C22_InvalidPureArgument ==
    (Committed /\ lastTx.fn \in StringFns) =>
        LET args == lastTx.cmds[1].args
            ty == Sig(lastTx.fn)[1].ty
            whole == Len(args) = 1 \/ Len(args[2].v) = 8
        IN /\ \A e \in C22_Enc(ty) :
                 e[1] = args[1].v =>
                     IF ~e[2] THEN C22_Fails(0)
                     ELSE IF whole THEN Succeeded ELSE C22_Fails(1)
           /\ (/\ Head(ty) = "option"
               /\ \E x \in C22_Utf8, y \in C22_Utf8 :
                      args[1].v = bcs_seq(<<bcs_bytes(x), bcs_bytes(y)>>))
                  => C22_Fails(0)

\* A vector of two strings, the first with a byte that is not UTF-8, was
\* refused; the gas coin was charged.
C22_Witness ==
    /\ lastTx.fn = "entry_point_string::utf8_vec_arg"
    /\ lastTx.cmds[1].args[1].v = bcs_seq(<<bcs_bytes(Messed(Utf8Str1)), bcs_bytes(Utf8Str2)>>)
    /\ C22_Fails(0)
    /\ store[lastTx.gas].ver = Pre[lastTx.gas].ver + 1

\* Objects that were Shared at the start of the last transaction and that one
\* of its MakeMoveVec commands names as an element.
C23_SharedElements ==
    {i \in ObjectIDs :
        /\ Pre[i].st = "live" /\ Pre[i].owner.kind = "Shared"
        /\ \E c \in 1..Len(lastTx.cmds) :
              /\ lastTx.cmds[c].kind = "MakeMoveVec"
              /\ \E a \in 1..Len(lastTx.cmds[c].args) :
                    /\ lastTx.cmds[c].args[a].k = "Input"
                    /\ lastTx.cmds[c].args[a].v = i}

\* C23: a transaction with a Shared object among the elements of an object
\* vector is rejected by the validation of its arguments, the function is not
\* run and the transaction ends with status Failure, and the shared object is
\* neither mutated nor deleted: it is in no effects set and its entry is as
\* before.
C23_SharedInVectorRejected ==
    \A i \in C23_SharedElements :
        /\ result.status = "failure"
        /\ ~lastTx.executed
        /\ i \notin RefIds(WrittenRefs \ OwnedRefs(Eff.gas_object))
        /\ store[i] = Pre[i]

\* obj_vec_destroy on a vector holding only a shared object failed at the
\* command that builds the vector.
C23_Witness ==
    /\ lastTx.fn = "entry_point_vector::obj_vec_destroy"
    /\ C23_SharedElements # {}
    /\ result.status = "failure"
    /\ result.command = 0
    /\ MutatedRefs = OwnedRefs(Eff.gas_object)

\* C24: when same_objects or same_objects_ref gets the same owned object as its
\* scalar argument 0 and inside the vector built by the MakeMoveVec at command
\* 0, the transaction is committed as a failure with InvalidUsageOfTakenValue
\* at command 1, arg_idx 0, and its effects record the gas object as the only
\* write.
C24_TakenValueReportedAtCall ==
    (C7_Case /\ lastTx.cmds[1].kind = "MakeMoveVec" /\ lastTx.cmds[2].args[1].k = "Input")
        => /\ Committed
           /\ result.status = "failure"
           /\ result.error = "InvalidUsageOfTakenValue"
           /\ result.command = 1
           /\ result.arg_idx = 0
           /\ WrittenRefs = {ObjectRef(store, lastTx.gas)}
           /\ store[lastTx.gas].ver = Pre[lastTx.gas].ver + 1

\* same_objects failed on an object passed by value and in the vector.
C24_Witness ==
    /\ C7_Case
    /\ lastTx.fn = "entry_point_vector::same_objects"
    /\ result.command = 1
    /\ result.arg_idx = 0
    /\ Eff.gas_object # {}

\* The argument positions of the last transaction that name an object, in
\* order: (command, argument).
C25_Uses ==
    {u \in (1..Len(lastTx.cmds)) \X (1..2) :
        u[2] <= Len(lastTx.cmds[u[1]].args) /\ lastTx.cmds[u[1]].args[u[2]].k = "Input"}
C25_Id(u) == lastTx.cmds[u[1]].args[u[2]].v
C25_Before(u, w) == u[1] < w[1] \/ (u[1] = w[1] /\ u[2] < w[2])
\* The use hands the object over: as an element of a vector, or by value.
C25_Consumes(u) ==
    \/ lastTx.cmds[u[1]].kind = "MakeMoveVec"
    \/ Sig(lastTx.cmds[u[1]].fn)[u[2]].mode = "val"
\* The four shapes the validator refuses.
C25_TakenReuse ==
    \E u \in C25_Uses, w \in C25_Uses :
        C25_Before(u, w) /\ C25_Id(u) = C25_Id(w) /\ C25_Consumes(u)
C25_UntypedEmptyVector ==
    \E c \in 1..Len(lastTx.cmds) :
        /\ lastTx.cmds[c].kind = "MakeMoveVec"
        /\ lastTx.cmds[c].tag = "none"
        /\ Len(lastTx.cmds[c].args) = 0
C25_WrongElementType ==
    \E u \in C25_Uses :
        /\ lastTx.cmds[u[1]].kind = "MakeMoveVec"
        /\ Pre[C25_Id(u)].ty # Sig(lastTx.fn)[Len(Sig(lastTx.fn))].ty
C25_SharedInVector ==
    \E u \in C25_Uses :
        lastTx.cmds[u[1]].kind = "MakeMoveVec" /\ Pre[C25_Id(u)].owner.kind = "Shared"

\* C25: the execution step of a transaction is started only if its argument
\* list holds no reuse of a taken object, no empty vector without a type tag,
\* no vector element of the wrong type and no shared object inside a vector.
C25_ValidatorBeforeExecution ==
    lastTx.executed =>
        /\ ~C25_TakenReuse
        /\ ~C25_UntypedEmptyVector
        /\ ~C25_WrongElementType
        /\ ~C25_SharedInVector

\* A vector holding an object of the wrong type was refused without being
\* executed, and the transaction was committed as a failure.
C25_Witness ==
    /\ C25_WrongElementType
    /\ ~C25_SharedInVector
    /\ ~lastTx.executed
    /\ result.status = "failure"
    /\ result.error = "TypeMismatch"

\* Ids that were embedded, at the start of the last transaction, in an object
\* the transaction deleted.
C26_EmbeddedInDeleted ==
    {i \in ObjectIDs :
        lastTx.preHolder[i] \in RefIds(Eff.deleted \cup Eff.unwrapped_then_deleted)}

\* C26 as stated: unwrapped_then_deleted holds exactly the ids embedded in a
\* deleted ancestor that had no top-level version visible at the start.
C26_Original ==
    Succeeded =>
        RefIds(Eff.unwrapped_then_deleted) =
            {i \in C26_EmbeddedInDeleted : LatestObjectInfo(Pre, i) = "ObjectNotFound"}

\* C26 amended: unwrapped_then_deleted holds exactly the ids embedded in a
\* deleted ancestor that an earlier transaction had wrapped, that is, that were
\* top-level objects before; an object created inside its ancestor and never
\* visible on its own is not listed.
C26_UnwrappedThenDeletedExactly ==
    Succeeded =>
        RefIds(Eff.unwrapped_then_deleted) =
            {i \in C26_EmbeddedInDeleted : Pre[i].st = "wrapped" /\ Pre[i].ver >= 2}

\* A parent was deleted with a child that add_child_wrapped had wrapped.
C26_Witness ==
    /\ Succeeded
    /\ lastTx.fn = "object_owner::delete_parent_and_child_wrapped"
    /\ \E c \in RefIds(Eff.unwrapped_then_deleted) :
          /\ Pre[c].st = "wrapped"
          /\ Pre[lastTx.preHolder[c]].ty = "Field"
          /\ store[c].st = "deleted"

\* Ids embedded in holder h that never had an entry of their own.
C27_NeverLiveIn(hd, h) == {c \in ObjectIDs : hd[c] = h /\ Pre[c].st = "none"}

\* C27: an object created inside its parent's field is in no effects set of the
\* transaction that creates it, which reports exactly the parent and the field
\* as created and nothing as wrapped; the transaction that deletes the parent
\* with it reports exactly the parent and the field as deleted, nothing as
\* unwrapped_then_deleted, and no modified_at_versions entry for the object.
C27_CreatedWrappedIsInvisible ==
    /\ (Succeeded /\ lastTx.fn = "object_owner::create_parent_and_child_wrapped") =>
          \E p \in ObjectIDs, f \in ObjectIDs, c \in ObjectIDs :
              /\ Cardinality({p, f, c}) = 3
              /\ RefIds(CreatedRefs) = {p, f}
              /\ store[p].ty = "object_owner::Parent"
              /\ store[f].owner = ObjectOwner(p)
              /\ C27_NeverLiveIn(holder, f) = {c}
              /\ SetsListing(c) = 0
              /\ Eff.wrapped = {}
              /\ \A e \in Eff.modified_at_versions : e[1] # c
    /\ \A p \in ObjectIDs, f \in ObjectIDs :
          (/\ Succeeded
           /\ lastTx.fn = "object_owner::delete_parent_and_child_wrapped"
           /\ lastTx.inputs = {p}
           /\ Pre[f].st = "live" /\ Pre[f].owner = ObjectOwner(p)
           /\ C27_NeverLiveIn(lastTx.preHolder, f) # {})
          => /\ RefIds(Eff.deleted) = {p, f}
             /\ Eff.unwrapped_then_deleted = {}
             /\ \A c \in C27_NeverLiveIn(lastTx.preHolder, f) :
                   /\ SetsListing(c) = 0
                   /\ \A e \in Eff.modified_at_versions : e[1] # c
             /\ {e[1] : e \in Eff.modified_at_versions} = {lastTx.gas, p, f}

\* A parent created together with its wrapped child was deleted with it.
C27_Witness ==
    /\ Succeeded
    /\ lastTx.fn = "object_owner::delete_parent_and_child_wrapped"
    /\ Cardinality(Eff.deleted) = 2
    /\ \E c \in lastTx.touched :
          /\ Pre[c].st = "none"
          /\ lastTx.preHolder[c] \in RefIds(Eff.deleted)
          /\ holder[c] = NoId

\* C29: add_child_wrapped on a parent and a child created on its own reports
\* exactly the new field as created and exactly the child as wrapped; deleting
\* the parent with the child so wrapped reports exactly the parent and the
\* field as deleted and exactly the child as unwrapped_then_deleted.
C29_WrappedLaterThenDeleted ==
    /\ \A p \in ObjectIDs, c \in ObjectIDs :
          (/\ Succeeded
           /\ lastTx.fn = "object_owner::add_child_wrapped"
           /\ lastTx.cmds[1].args = <<Input(p), Input(c)>>)
          => /\ Pre[c].st = "live"
             /\ \E f \in ObjectIDs :
                   /\ CreatedRefs = {ObjectRef(store, f)}
                   /\ Pre[f].st = "none"
                   /\ store[f].ty = "Field"
                   /\ store[f].owner = ObjectOwner(p)
                   /\ holder[c] = f
             /\ Eff.wrapped = {<<c, store[lastTx.gas].ver, OBJECT_DIGEST_WRAPPED>>}
    /\ \A p \in ObjectIDs, f \in ObjectIDs, c \in ObjectIDs :
          (/\ Succeeded
           /\ lastTx.fn = "object_owner::delete_parent_and_child_wrapped"
           /\ lastTx.inputs = {p}
           /\ Pre[f].st = "live" /\ Pre[f].owner = ObjectOwner(p)
           /\ lastTx.preHolder[c] = f
           /\ Pre[c].st = "wrapped")
          => /\ RefIds(Eff.deleted) = {p, f}
             /\ Cardinality(Eff.deleted) = 2
             /\ Eff.unwrapped_then_deleted =
                    {<<c, store[lastTx.gas].ver, OBJECT_DIGEST_DELETED>>}

\* The child was created by create_child, wrapped at a later version, and
\* deleted with its parent at a version later still.
C29_Witness ==
    /\ Succeeded
    /\ lastTx.fn = "object_owner::delete_parent_and_child_wrapped"
    /\ Cardinality(Eff.deleted) = 2
    /\ \E c \in RefIds(Eff.unwrapped_then_deleted) :
          /\ Pre[c].ty = "object_owner::Child"
          /\ Pre[c].ver >= 3
          /\ store[c].ver > Pre[c].ver

\* C30: create_parent_and_child reports exactly three objects as created: the
\* parent, a field owned by the parent and a child owned by the field, none
\* of them embedded; delete_parent_and_child on a parent removes the parent,
\* its field and the child the field owns, reports exactly these three as
\* deleted and nothing as unwrapped_then_deleted.
C30_CascadeThroughOwnership ==
    /\ (Succeeded /\ lastTx.fn = "object_owner::create_parent_and_child") =>
          \E p \in ObjectIDs, f \in ObjectIDs, c \in ObjectIDs :
              /\ Cardinality({p, f, c}) = 3
              /\ RefIds(CreatedRefs) = {p, f, c}
              /\ store[p].owner = AddressOwner(lastTx.signer)
              /\ store[f].owner = ObjectOwner(p)
              /\ store[c].owner = ObjectOwner(f)
              /\ \A i \in {p, f, c} : store[i].st = "live" /\ holder[i] = NoId
    /\ \A p \in ObjectIDs :
          (/\ Succeeded
           /\ lastTx.fn = "object_owner::delete_parent_and_child"
           /\ lastTx.inputs = {p})
          => \E f \in ObjectIDs, c \in ObjectIDs :
                /\ Pre[f].st = "live" /\ Pre[f].owner = ObjectOwner(p)
                /\ Pre[c].st = "live" /\ Pre[c].owner = ObjectOwner(f)
                /\ lastTx.preHolder[c] = NoId
                /\ Eff.deleted =
                       {<<i, store[lastTx.gas].ver, OBJECT_DIGEST_DELETED>> : i \in {p, f, c}}
                /\ Cardinality(Eff.deleted) = 3
                /\ Eff.unwrapped_then_deleted = {}
                /\ \A i \in {p, f, c} : store[i].st = "deleted"

\* A family made by create_parent_and_child was deleted as a whole.
C30_Witness ==
    /\ Succeeded
    /\ lastTx.fn = "object_owner::delete_parent_and_child"
    /\ Cardinality(Eff.deleted) = 3
    /\ \E v \in 2..MaxVersion : \A r \in Eff.deleted : Pre[r[1]].ver = v

\* Objects named as elements of a vector argument, and as scalar arguments.
C31_Elements ==
    {i \in ObjectIDs :
        \E c \in 1..Len(lastTx.cmds) :
            /\ lastTx.cmds[c].kind = "MakeMoveVec"
            /\ \E a \in 1..Len(lastTx.cmds[c].args) :
                  /\ lastTx.cmds[c].args[a].k = "Input"
                  /\ lastTx.cmds[c].args[a].v = i}
C31_Scalars ==
    {i \in ObjectIDs :
        \E c \in 1..Len(lastTx.cmds) :
            /\ lastTx.cmds[c].kind = "MoveCall"
            /\ \E a \in 1..Len(lastTx.cmds[c].args) :
                  /\ lastTx.cmds[c].args[a].k = "Input"
                  /\ lastTx.cmds[c].args[a].v = i}
C31_Child(i) == Pre[i].st = "live" /\ Pre[i].owner.kind = "ObjectOwner"
\* The live object that owns the child, and the live owner of that object when
\* it is a field object.
C31_Parents(i) ==
    LET o == Pre[i].owner.id
    IN {p \in {o} \cup (IF o \in ObjectIDs /\ Pre[o].owner.kind = "ObjectOwner"
                        THEN {Pre[o].owner.id} ELSE {}) :
            p \in ObjectIDs /\ Pre[p].st = "live"}
\* The transaction names an object-owned child, as a scalar argument or in a
\* vector, and names its parent as well.
C31_ChildWithParent ==
    \E i \in InputObjects(lastTx.cmds) :
        C31_Child(i) /\ C31_Parents(i) \cap InputObjects(lastTx.cmds) # {}

\* C31: every object placed in a vector argument is authenticated per
\* element, a transaction with an element its signer may not use being
\* rejected, and a parent named elsewhere in the transaction authenticates its
\* child: a transaction that carries both the parent and its object-owned
\* child is allowed.
C31_Original ==
    /\ (/\ \E i \in C31_Elements :
              authenticate(Pre[i], [signer |-> lastTx.signer, shared |-> lastTx.shared,
                                    use |-> "write"]) # "allowed"
        /\ ~C31_ChildWithParent) => Rejected
    /\ C31_ChildWithParent => ~Rejected

\* child_access was called with the child as its scalar argument and the
\* parent, which the signer owns, in the vector: the transaction was refused
\* with InvalidChildObjectArgument and nothing was written.
C31_Witness ==
    /\ lastTx.fn = "entry_point_vector::child_access"
    /\ C31_ChildWithParent
    /\ \E i \in C31_Scalars : \E p \in C31_Elements :
          /\ C31_Child(i)
          /\ p \in C31_Parents(i)
          /\ Pre[p].owner = AddressOwner(lastTx.signer)
    /\ result.status = "error"
    /\ result.error = "InvalidChildObjectArgument"
    /\ store = Pre

\* C32: an object-owned child passed directly as an argument is rejected with
\* InvalidChildObjectArgument, as an error and not as a failed effects record,
\* also when its parent is an argument of the same transaction, as a scalar
\* argument or as an element of a vector argument; nothing is committed.
C32_ChildArgumentRejected ==
    \A i \in C31_Scalars :
        (C31_Child(i) /\ C31_Parents(i) \cap (C31_Scalars \cup C31_Elements) # {})
            => /\ Rejected
               /\ ~Committed
               /\ result.error = "InvalidChildObjectArgument"
               /\ Eff = NoEffects
               /\ store = Pre
               /\ ~lastTx.executed

\* child_access(child, vector of the parent) was refused, after
\* mutate_child_with_parent(child, parent) bumped nothing: the child is still
\* at the version add_child or mint_child gave it.
C32_Witness ==
    /\ lastTx.fn = "entry_point_vector::child_access"
    /\ \E i \in C31_Scalars :
          /\ C31_Child(i)
          /\ C31_Parents(i) \cap C31_Elements # {}
          /\ C31_Parents(i) \cap C31_Scalars = {}
    /\ result.error = "InvalidChildObjectArgument"

\* The last publish carried at least one module and an empty blob among them.
C33_HasEmptyBlob ==
    /\ lastTx.fn = "publish"
    /\ \E i \in 1..Len(C10_Modules) : C10_Modules[i] = "empty"

\* C33: a publish whose module list is not empty but holds an empty module blob
\* is not an input error: it is executed and committed, the gas object moving
\* to the next version, with Failure VMVerificationOrDeserializationError at
\* command 0; a publish with an empty module list is rejected before execution
\* with EmptyCommandInput and nothing is committed.
C33_EmptyBlobVersusEmptyList ==
    /\ C33_HasEmptyBlob =>
          /\ ~Rejected
          /\ lastTx.executed
          /\ Committed
          /\ result.status = "failure"
          /\ result.error = "VMVerificationOrDeserializationError"
          /\ result.command = 0
          /\ store[lastTx.gas].ver = Pre[lastTx.gas].ver + 1
          /\ Eff.created = {}
    /\ (lastTx.fn = "publish" /\ C10_Modules = <<>>) =>
          /\ Rejected
          /\ result.error = "EmptyCommandInput"
          /\ ~lastTx.executed
          /\ Eff = NoEffects
          /\ store = Pre

\* The publish of one empty blob failed at command 0 after an earlier publish
\* had moved the same gas object on.
C33_Witness ==
    /\ C33_HasEmptyBlob
    /\ C10_Modules = <<"empty">>
    /\ lastTx.executed
    /\ result.command = 0
    /\ Pre[lastTx.gas].ver > 1

\* The call of the last transaction, its vector arguments, and the command that
\* builds the vector passed as argument a.
C34_Call == lastTx.cmds[Len(lastTx.cmds)]
C34_VecArgs ==
    IF lastTx.cmds = <<>> \/ C34_Call.kind # "MoveCall" THEN {}
    ELSE {a \in 1..Len(C34_Call.args) : C34_Call.args[a].k = "Result"}
C34_Vec(a) == lastTx.cmds[C34_Call.args[a].v + 1]
C34_ElementsOf(a) == {C34_Vec(a).args[e].v : e \in 1..Len(C34_Vec(a).args)}
\* Vector arguments with an element whose type is not the element type the
\* called function declares for that parameter.
C34_Mistyped ==
    {a \in C34_VecArgs :
        /\ Sig(C34_Call.fn)[a].mode = "vec"
        /\ \E i \in C34_ElementsOf(a) : Pre[i].ty # Sig(C34_Call.fn)[a].ty}
\* Nothing else is wrong with the transaction: every object is named once, and
\* the signer may use each of them as a vector element.
C34_OtherwiseValid ==
    /\ Cardinality(C25_Uses) = Cardinality({C25_Id(u) : u \in C25_Uses})
    /\ \A i \in InputObjects(lastTx.cmds) \cup {lastTx.gas} :
          /\ authenticate(Pre[i], [signer |-> lastTx.signer, shared |-> lastTx.shared,
                                   use |-> "write"]) = "allowed"
          /\ Pre[i].owner.kind # "Shared"

\* C34: a vector of objects with an element whose runtime type differs from the
\* element type of the vector parameter ends with status Failure, reported at
\* the command that builds the vector or at the call that receives it; no
\* element is coerced, destroyed or mutated.
C34_WrongElementTypeFails ==
    \A a \in C34_Mistyped :
        C34_OtherwiseValid =>
            /\ result.status = "failure"
            /\ result.error = "TypeMismatch"
            /\ result.command \in {C34_Call.args[a].v, Len(lastTx.cmds) - 1}
            /\ \A i \in C34_ElementsOf(a) :
                  /\ store[i] = Pre[i]
                  /\ i \notin RefIds(Eff.deleted) \cup RefIds(MutatedRefs) \cup RefIds(Eff.wrapped)

\* two_obj_vec_destroy failed on a vector whose first element has the wrong
\* type and whose second element has the right one.
C34_Witness ==
    /\ lastTx.fn = "entry_point_vector::two_obj_vec_destroy"
    /\ C34_Mistyped # {}
    /\ \E a \in C34_Mistyped :
          /\ Len(C34_Vec(a).args) = 2
          /\ Pre[C34_Vec(a).args[1].v].ty = "entry_point_vector::AnotherObj"
          /\ Pre[C34_Vec(a).args[2].v].ty = "entry_point_vector::Obj"
    /\ result.status = "failure"

\* The two object arguments of the last call.
C35_Arg(k) == lastTx.cmds[1].args[k].v
\* Field objects of parent p with a child, and the children below them, at the
\* start of the last transaction.
C35_FieldsBefore(p) == {f \in FieldOf(Pre, p) : OwnedBy(Pre, f) # {}}
C35_ChildrenBefore(p) == UNION {OwnedBy(Pre, f) : f \in C35_FieldsBefore(p)}
C35_OwnParent(i) ==
    /\ Pre[i].st = "live"
    /\ Pre[i].ty = "object_owner::Parent"
    /\ Pre[i].owner = AddressOwner(lastTx.signer)

\* C35: add_child on an address-owned child reports the child in mutated with
\* owner ObjectOwner(field_id), the field object being a live object owned by
\* the parent's id; transfer_child(parent, new_parent) afterwards succeeds,
\* naming the two parents and not the child, and leaves the child under a
\* field object of the new parent.
C35_AddThenTransferChild ==
    /\ (lastTx.fn = "object_owner::add_child" /\ Succeeded) =>
          /\ Pre[C35_Arg(2)].owner = AddressOwner(lastTx.signer)
          /\ \E r \in Eff.mutated :
                /\ r.ref[1] = C35_Arg(2)
                /\ r.owner.kind = "ObjectOwner"
                /\ r.owner.id \in ObjectIDs
                /\ store[r.owner.id].st = "live"
                /\ store[r.owner.id].owner = ObjectOwner(C35_Arg(1))
                /\ store[C35_Arg(2)].owner = r.owner
    /\ (/\ lastTx.fn = "object_owner::transfer_child"
        /\ C35_OwnParent(C35_Arg(1)) /\ C35_OwnParent(C35_Arg(2))
        /\ C35_Arg(1) # C35_Arg(2)
        /\ C35_ChildrenBefore(C35_Arg(1)) # {}
        /\ FieldOf(Pre, C35_Arg(2)) = {}) =>
          /\ Succeeded
          /\ C35_ChildrenBefore(C35_Arg(1)) \cap InputObjects(lastTx.cmds) = {}
          /\ \A c \in C35_ChildrenBefore(C35_Arg(1)) :
                /\ c \in RefIds(MutatedRefs)
                /\ store[c].owner.kind = "ObjectOwner"
                /\ store[c].owner.id \in FieldOf(store, C35_Arg(2))

\* The child that add_child put under the first parent was transferred to a
\* parent created afterwards.
C35_Witness ==
    /\ lastTx.fn = "object_owner::transfer_child"
    /\ Succeeded
    /\ C35_ChildrenBefore(C35_Arg(1)) # {}
    /\ C35_Arg(2) > C35_Arg(1)
    /\ \E c \in C35_ChildrenBefore(C35_Arg(1)) : c < C35_Arg(2)

\* Entries of created whose owner is Shared.
C36_CreatedShared == {r \in Eff.created : r.owner.kind = "Shared"}

\* C36: an object created as Shared has owner Shared{initial_shared_version}
\* with initial_shared_version equal to the version in its created ObjectRef,
\* which is the Lamport version of the creating transaction; the stored object
\* carries the same owner.
C36_InitialSharedVersion ==
    Succeeded =>
        \A r \in C36_CreatedShared :
            /\ r.owner.isv = r.ref[2]
            /\ r.ref[2] = TxVersion(Pre, lastTx.inputs, lastTx.gas)
            /\ r.ref[2] > Pre[lastTx.gas].ver
            /\ store[r.ref[1]].owner = r.owner
            /\ store[r.ref[1]].ver = r.owner.isv

\* delegate created its shared object after earlier transactions had moved the
\* gas object on.
C36_Witness ==
    /\ lastTx.fn = "depends_on_basics::delegate"
    /\ Succeeded
    /\ Cardinality(C36_CreatedShared) = 1
    /\ Cardinality(Eff.created) = 1
    /\ \E r \in C36_CreatedShared : r.owner.isv >= 3

\* Objects other than the gas object that were live before the last
\* transaction, are live after it, and were written by it.
C37_OthersChanged ==
    {i \in ObjectIDs \ {lastTx.gas} :
        Pre[i].st = "live" /\ store[i].st = "live" /\ store[i] # Pre[i]}
C37_Top ==
    LET versions == {Pre[i].ver : i \in lastTx.inputs \cup {lastTx.gas}}
    IN CHOOSE m \in versions : \A y \in versions : y <= m

\* C37: every successful transaction lists its gas object in mutated at the
\* transaction's Lamport version; mutated has one entry more than the other
\* existing objects the transaction changes, so exactly one when it changes
\* no other existing object (create_parent_and_child_wrapped) and exactly two
\* when it mutates a parent (extract_child, set_child).
C37_GasIsMutated ==
    Succeeded =>
        /\ \E r \in MutatedRefs : r[1] = lastTx.gas /\ r[2] = C37_Top + 1
        /\ Cardinality(Eff.mutated) = 1 + Cardinality(C37_OthersChanged)
        /\ lastTx.inputs = {} => Cardinality(Eff.mutated) = 1
        /\ lastTx.fn \in {"object_wrapping::extract_child", "object_wrapping::set_child"}
              => Cardinality(Eff.mutated) = 2

\* extract_child reported the parent and the gas object as mutated, the gas
\* object coming in at a lower version than the parent.
C37_Witness ==
    /\ lastTx.fn = "object_wrapping::extract_child"
    /\ Succeeded
    /\ Cardinality(Eff.mutated) = 2
    /\ Cardinality(Eff.unwrapped) = 1
    /\ Pre[lastTx.gas].ver < C37_Top

\* C38: the resolution of an object-owner chain always ends with allowed or
\* denied, whatever the table holds: it never follows more than MaxDepth
\* links, so a chain whose links form a cycle, or lead to an object the table
\* does not have, is denied instead of being walked for ever.
C38_ResolutionTerminates ==
    /\ [](walk.depth <= MaxDepth)
    /\ (walk.verdict = "walking") ~> (walk.verdict \in {"allowed", "denied"})

\* Every object of the table is object-owned by an object of the table, so the
\* links form a cycle; the walk was denied at the bound.
C38_Witness ==
    /\ walk.verdict = "denied"
    /\ walk.depth = MaxDepth
    /\ \A i \in ChainIds :
          /\ walk.table[i].st = "live"
          /\ walk.table[i].owner.kind = "ObjectOwner"
          /\ walk.table[i].owner.id \in ChainIds

\* C39: graceful shutdown, with a grace period of 30 seconds, is requested on
\* the server handle only after a Ctrl-C or a SIGTERM has been received, and
\* it is requested exactly once as soon as either of the two has been
\* delivered to the serving process, whichever comes first.
C39_Original ==
    /\ [](srv.shutdowns <= 1)
    /\ [](srv.shutdowns = 1 => srv.arrived # {} /\ srv.grace = GraceSeconds)
    /\ (srv.arrived \cup srv.lost # {}) ~> (srv.shutdowns = 1)

\* What holds of the shutdown task: the request is made at most once, with a
\* grace period of 30 seconds and only after a signal has been noted, and it
\* is made once the task waits in select! and a signal has been noted.
C39_ShutdownOnSignal ==
    /\ [](srv.shutdowns <= 1)
    /\ [](srv.shutdowns = 1 => srv.arrived # {} /\ srv.grace = GraceSeconds)
    /\ [][srv'.shutdowns # srv.shutdowns
            => srv.arrived # {} /\ srv.shutdowns = 0 /\ srv'.shutdowns = 1]_vars
    /\ (srv.task = "waiting" /\ srv.arrived # {}) ~> (srv.shutdowns = 1)

\* A Ctrl-C was delivered while its handler had no listener yet: the process
\* survived it, the task waits with both listeners registered, and no
\* shutdown has been requested.
C39_Witness ==
    /\ srv.lost = {"ctrl_c"}
    /\ srv.arrived = {}
    /\ srv.task = "waiting"
    /\ srv.serving = "serving"
    /\ srv.shutdowns = 0

\* C40: create_server_cert_enforce_peer returns the error "missing certs to
\* initialize server" whenever the certificate file or the private key path is
\* absent, and then no provider is created, no polling is started and no file
\* is read; otherwise polling is started before a file is read and before the
\* TLS config is built, and the provider returned with the config is the one
\* that polls.
C40_MissingCertsOrPolling ==
    peer.pc # "idle" =>
        IF peer.certificate_file = "None" \/ peer.private_key = "None"
        THEN /\ peer.pc = "returned"
             /\ peer.ret.kind = "Err"
             /\ peer.ret.msg = "missing certs to initialize server"
             /\ peer.allower = NoProvider
             /\ peer.reads = <<>>
        ELSE /\ peer.ret.msg # "missing certs to initialize server"
             /\ peer.reads # <<>> => peer.allower.polling
             /\ peer.ret.kind # "none" => peer.allower.polling
             /\ peer.ret.kind = "Ok" =>
                   /\ peer.ret.provider = peer.allower
                   /\ peer.ret.provider.url = peer.url
                   /\ peer.reads = <<"certificate_file", "private_key">>

\* The call returned the error with a certificate file and no private key.
C40_Witness ==
    /\ peer.pc = "returned"
    /\ peer.certificate_file = "Some"
    /\ peer.private_key = "None"
    /\ peer.certfile = "pem"
    /\ peer.ret.msg = "missing certs to initialize server"

====
